---- MODULE Spec2Model ----
(***************************************************************************)
(* Model of the api-gateway: the rate-limiting engine                      *)
(* (src/src/backend/services/RateLimiterService.ts), the TOTP utilities,   *)
(* the device registry, the authentication middleware and the request      *)
(* pipeline.                                                               *)
(*                                                                         *)
(* Numbers.  A JavaScript number that may be absent (an optional config    *)
(* field that is undefined, or the NaN that arithmetic on it yields) is a  *)
(* sequence: <<n>> is the number n, <<>> is undefined/NaN.  Every          *)
(* comparison with <<>> is false, as in JavaScript.                        *)
(* Token counts are kept in milli-tokens (1 token = 1000): with an integer *)
(* refill rate and a millisecond clock, tokens + elapsed/1000 * rate is    *)
(* always a whole number of milli-tokens, so the arithmetic is exact.      *)
(* The clock is Date.now() in milliseconds.                                *)
(*                                                                         *)
(* Strings.  An API key, and a browserId that goes into one, is the        *)
(* sequence of the segments that split('_') yields: "totp_ab_c1" is        *)
(* <<"totp", "ab", "c1">>.  Other strings are TLA+ strings.                *)
(***************************************************************************)
EXTENDS Integers, Sequences, FiniteSets, TLC

VARIABLES
    config,         \* RateLimiterService.config
    now,            \* the value Date.now() returns
    tokenBucket,    \* TokenBucket.buckets        : ip -> {tokens, lastRefill}
    slidingWindow,  \* SlidingWindowLog.windows   : ip -> timestamps
    fixedWindow,    \* FixedWindowCounter.windows : ip -> {count, windowStart}
    globalWindow,   \* the second FixedWindowCounter, key "__global__"
    rateLimitHits,  \* RateLimiterService._rateLimitHits
    last,           \* history: the latest checkLimit call, the tier it resolved to, its result
    calls,          \* history: number of checkLimit calls made
    rejected,       \* history: number of calls that returned allowed = false
    tbSeen,         \* history: ip -> first token-bucket call and calls at that instant
    drain,          \* history: ip -> admissions since the bucket was last at 0
    swAdmitted,     \* history: ip -> time -> sliding-window admissions at that time
    fwSeen,         \* history: ip -> calls that reached the fixed window, per window
    gwAllowed,      \* history: calls answered allowed = true in the current global window
    totp,           \* the code a client holds and the latest validateTOTP call
    devices,        \* DeviceRegistryService.devices : browserId -> DeviceEntry
    registrationAttempts,   \* DeviceRegistryService.registrationAttempts : ip -> timestamps
    writeTimeout,   \* DeviceRegistryService.writeTimeout: <<deadline>> of the pending timer, <<>> for null
    cleanupInterval,    \* DeviceRegistryService.cleanupInterval: when the hourly timer fires next
    issued,         \* number of generateSecret() calls made
    regs,           \* history: number of registerDevice calls made
    lastReg,        \* history: the registerDevice call just made and what it returned
    timers,         \* the deadlines of the setTimeout timers that are pending
    file,           \* the devices file: <<>> when absent, else <<its devices array>>
    saves,          \* history: number of saveToDiskSync calls made
    thrown,         \* where an exception left the service uncaught, "" for nowhere
    destroyed,      \* destroy() has been called
    apiKeys,        \* config.apiKeys.keys
    deviceRegistry, \* whether createApiKeyAuth was given a DeviceRegistryService
    customTotpValidator,    \* whether createApiKeyAuth was given a validateTOTP function
    lastAuth,       \* history: the apiKeyAuth call just made and what it did
    ipRules,        \* config.ipRules
    analytics,      \* AnalyticsService: logs, head, count
    inflight,       \* requests whose response has not finished: id -> request and response
    responses,      \* history: the status code of the response to each request, by id
    lastReq,        \* history: the request the pipeline just handled
    lastKey,        \* history: the key management call just made
    logged,         \* history: number of addLog calls made
    lastRead,       \* history: the getRecentLogs call just made and what it returned
    streams,        \* GET /analytics/live: subscriber -> its interval and the events written to it
    fileLogWriter,  \* FileLogWriter: its fields, and the write calls made
    logDir          \* the files of config.logDir: file name -> number of lines

limiterVars == <<config, tokenBucket, slidingWindow, fixedWindow, globalWindow,
                 rateLimitHits, last, calls, rejected, tbSeen, drain, swAdmitted,
                 fwSeen, gwAllowed>>

totpVars == <<totp>>

deviceVars == <<devices, registrationAttempts, writeTimeout, cleanupInterval,
                issued, regs, lastReg, timers, file, saves, thrown, destroyed>>

authVars == <<apiKeys, deviceRegistry, customTotpValidator, lastAuth>>

logVars == <<fileLogWriter, logDir>>
gatewayVars == <<ipRules, analytics, inflight, responses, lastReq, lastKey,
                 logged, lastRead, streams, logVars>>

vars == <<now, limiterVars, totpVars, deviceVars, authVars, gatewayVars>>

----------------------------------------------------------------------------
(* Bounds of the model *)

MaxCalls == 4       \* checkLimit calls in one behaviour
MaxTicks == 4       \* the clock runs up to MaxTicks half-seconds
MaxCap == 2         \* tier capacities (maxRequests) range over 1..MaxCap
MaxRegs == 2        \* registerDevice calls in one behaviour of the registry
MaxHours == 1       \* the registry's clock runs up to MaxHours hours and one week
MaxRequests == 2    \* requests the gateway handles in one behaviour
MaxKeys == 2        \* entries of config.apiKeys.keys
MaxSegments == 3    \* '_'-separated segments of a key given to parseKey


ClockSteps == {500}
TimeLimit == MaxTicks * 500
Times == {t \in 0..TimeLimit : t % 500 = 0}

IPs == {"10.0.0.1", "10.0.0.2"}

----------------------------------------------------------------------------
(* JavaScript numbers *)

NaN == <<>>
Num(n) == <<n>>
IsNum(x) == x # <<>>
ValOf(x) == x[1]

\* a < b, a >= b on numbers that may be NaN: false when either is NaN
JsLt(a, b) == IsNum(a) /\ IsNum(b) /\ ValOf(a) < ValOf(b)
JsGe(a, b) == IsNum(a) /\ IsNum(b) /\ ValOf(a) >= ValOf(b)
JsLe(a, b) == IsNum(a) /\ IsNum(b) /\ ValOf(a) <= ValOf(b)
JsAdd(a, b) == IF IsNum(a) /\ IsNum(b) THEN Num(ValOf(a) + ValOf(b)) ELSE NaN
JsSub(a, b) == IF IsNum(a) /\ IsNum(b) THEN Num(ValOf(a) - ValOf(b)) ELSE NaN
JsMin(a, b) ==
    IF IsNum(a) /\ IsNum(b)
    THEN (IF ValOf(a) <= ValOf(b) THEN a ELSE b)
    ELSE NaN

\* Math.ceil(a / b) for b > 0
CeilDiv(a, b) == -((-a) \div b)

\* a Map.set that writes the value under every key
MapSetAll(m, k, v) == [x \in DOMAIN m \cup {k} |-> v]

\* Map.set(key, value)
MapSet(m, k, v) == [x \in DOMAIN m \cup {k} |-> IF x = k THEN v ELSE m[x]]

----------------------------------------------------------------------------
(* TokenBucket *)

\* whole tokens -> milli-tokens
MilliTokens(x) == IF IsNum(x) THEN Num(ValOf(x) * 1000) ELSE NaN

\* a new bucket that starts one token short of maxTokens
NewBucketOneShort(maxTokens, t) ==
    [tokens |-> JsSub(MilliTokens(maxTokens), Num(1000)), lastRefill |-> t]

\* bucket = { tokens: maxTokens, lastRefill: now }
NewBucket(maxTokens, t) == [tokens |-> MilliTokens(maxTokens), lastRefill |-> t]

\* a refill without the Math.min clamp at maxTokens
RefillUnclamped(tokens, maxTokens, elapsedMs, refillRate) ==
    JsAdd(tokens, Num(elapsedMs * refillRate))

\* elapsed = (now - lastRefill) / 1000;
\* tokens = Math.min(maxTokens, tokens + elapsed * refillRate)
Refill(tokens, maxTokens, elapsedMs, refillRate) ==
    JsMin(MilliTokens(maxTokens), JsAdd(tokens, Num(elapsedMs * refillRate)))

TokenBucketTryConsume(buckets, ip, maxTokens, refillRate, t) ==
    LET bucket == IF ip \in DOMAIN buckets THEN buckets[ip] ELSE NewBucket(maxTokens, t)
        tokens == Refill(bucket.tokens, maxTokens, t - bucket.lastRefill, refillRate)
    IN  IF JsGe(tokens, Num(1000))
        THEN LET left == ValOf(tokens) - 1000
             IN  [state     |-> MapSet(buckets, ip, [tokens |-> Num(left), lastRefill |-> t]),
                  allowed   |-> TRUE,
                  remaining |-> left \div 1000,
                  resetMs   |-> IF left <= 0 THEN Num(CeilDiv(1000, refillRate)) ELSE Num(0)]
        ELSE [state     |-> MapSet(buckets, ip, [tokens |-> tokens, lastRefill |-> t]),
              allowed   |-> FALSE,
              remaining |-> 0,
              resetMs   |-> IF IsNum(tokens)
                            THEN Num(CeilDiv(1000 - ValOf(tokens), refillRate))
                            ELSE NaN]

----------------------------------------------------------------------------
(* SlidingWindowLog *)

\* a filter that keeps the timestamp that is exactly windowMs old
SlidingFilterInclusive(timestamps, t, windowMs) ==
    LET InWindow(x) == JsLe(Num(t - x), windowMs)
    IN  SelectSeq(timestamps, InWindow)

\* state.timestamps.filter(t => now - t < windowMs)
SlidingFilter(timestamps, t, windowMs) ==
    LET InWindow(x) == JsLt(Num(t - x), windowMs)
    IN  SelectSeq(timestamps, InWindow)

\* a room test that is off by one
SlidingHasRoomInclusive(timestamps, maxRequests) == JsLe(Num(Len(timestamps)), maxRequests)

\* state.timestamps.length < maxRequests
SlidingHasRoom(timestamps, maxRequests) == JsLt(Num(Len(timestamps)), maxRequests)

SlidingWindowLogTryConsume(windows, ip, maxRequests, windowMs, t) ==
    LET state == IF ip \in DOMAIN windows THEN windows[ip] ELSE [timestamps |-> <<>>]
        kept == SlidingFilter(state.timestamps, t, windowMs)
    IN  IF SlidingHasRoom(kept, maxRequests)
        THEN LET pushed == Append(kept, t)
             IN  [state     |-> MapSet(windows, ip, [timestamps |-> pushed]),
                  allowed   |-> TRUE,
                  remaining |-> ValOf(maxRequests) - Len(pushed),
                  resetMs   |-> JsSub(windowMs, Num(t - pushed[1]))]
        ELSE [state     |-> MapSet(windows, ip, [timestamps |-> kept]),
              allowed   |-> FALSE,
              remaining |-> 0,
              resetMs   |-> IF kept = <<>> THEN NaN
                            ELSE JsSub(windowMs, Num(t - kept[1]))]

----------------------------------------------------------------------------
(* FixedWindowCounter *)

\* an expiry test that lets the window live one instant too long
FixedWindowExpiredStrict(windows, key, t, windowMs) ==
    \/ key \notin DOMAIN windows
    \/ JsLt(windowMs, Num(t - windows[key].windowStart))

\* !state || now - state.windowStart >= windowMs
FixedWindowExpired(windows, key, t, windowMs) ==
    \/ key \notin DOMAIN windows
    \/ JsGe(Num(t - windows[key].windowStart), windowMs)

\* a room test that is off by one
FixedHasRoomInclusive(count, maxRequests) == JsLe(Num(count), maxRequests)

\* state.count < maxRequests
FixedHasRoom(count, maxRequests) == JsLt(Num(count), maxRequests)

FixedWindowCounterTryConsume(windows, key, maxRequests, windowMs, t) ==
    LET state == IF FixedWindowExpired(windows, key, t, windowMs)
                 THEN [count |-> 0, windowStart |-> t]
                 ELSE windows[key]
        resetMs == JsSub(windowMs, Num(t - state.windowStart))
    IN  IF FixedHasRoom(state.count, maxRequests)
        THEN [state     |-> MapSet(windows, key, [state EXCEPT !.count = @ + 1]),
              allowed   |-> TRUE,
              remaining |-> ValOf(maxRequests) - (state.count + 1),
              resetMs   |-> resetMs]
        ELSE [state     |-> MapSet(windows, key, state),
              allowed   |-> FALSE,
              remaining |-> 0,
              resetMs   |-> resetMs]

----------------------------------------------------------------------------
(* RateLimitConfig *)

Tier(algorithm, maxRequests, windowMs, refillRate) ==
    [algorithm |-> algorithm, maxRequests |-> maxRequests,
     windowMs |-> windowMs, refillRate |-> refillRate]

NoLimitTier == Tier("none", NaN, NaN, NaN)

GlobalLimit(ceiling) == [maxRequests |-> ceiling, windowMs |-> 2000]

\* one limiting tier, which is the default
OneTierConfig(name, tier, ceiling) ==
    [tiers |-> [n \in {name} |-> tier],
     defaultTier |-> name,
     globalLimit |-> GlobalLimit(ceiling)]

\* tiers of different algorithms side by side under a low global ceiling
MixedConfig ==
    [tiers |-> [free |-> Tier("tokenBucket", Num(1), Num(1000), Num(1)),
                pro  |-> Tier("slidingWindow", Num(1), Num(1000), NaN)],
     defaultTier |-> "free",
     globalLimit |-> GlobalLimit(3)]

\* a limiting tier beside "unlimited" under a low global ceiling
CeilingConfig ==
    [tiers |-> [free      |-> Tier("tokenBucket", Num(1), Num(1000), Num(1)),
                unlimited |-> NoLimitTier],
     defaultTier |-> "free",
     globalLimit |-> GlobalLimit(3)]

\* refillRate is optional: NaN stands for a tier that leaves it out
BucketTier(cap, rate) == Tier("tokenBucket", Num(cap), Num(1000), rate)
SlidingTier(cap) == Tier("slidingWindow", Num(cap), Num(1000), NaN)
FixedTier(cap) == Tier("fixedWindow", Num(cap), Num(1000), NaN)

BucketConfigs ==
    {OneTierConfig("free", BucketTier(cap, rate), 100) :
        cap \in 1..MaxCap, rate \in {NaN, Num(2)}}

WellFormedConfigs ==
    {MixedConfig, CeilingConfig}
    \cup BucketConfigs
    \cup {OneTierConfig("pro", SlidingTier(cap), 100) : cap \in 1..MaxCap}
    \cup {OneTierConfig("fixed", FixedTier(cap), ceiling) :
            cap \in 1..MaxCap, ceiling \in {3, 100}}

\* a limiting tier that leaves out the maxRequests or the windowMs it needs
MalformedConfigs ==
    {OneTierConfig("free", Tier("tokenBucket", NaN, Num(1000), Num(1)), 100),
     OneTierConfig("pro", Tier("slidingWindow", NaN, Num(1000), NaN), 100),
     OneTierConfig("fixed", Tier("fixedWindow", NaN, Num(1000), NaN), 100),
     OneTierConfig("pro", Tier("slidingWindow", Num(1), NaN, NaN), 100),
     OneTierConfig("fixed", Tier("fixedWindow", Num(1), NaN, NaN), 100)}

Configs == WellFormedConfigs \cup MalformedConfigs

\* the tier names requests carry: the configured ones and an unknown one
RequestTiers == DOMAIN config.tiers \cup {"nonexistent"}

\* an unknown tier name that resolves to no tier at all
ResolveTierNoFallback(cfg, tier) ==
    IF tier \in DOMAIN cfg.tiers THEN <<cfg.tiers[tier]>> ELSE <<>>

\* this.config.tiers[tier] || this.config.tiers[this.config.defaultTier]
ResolveTier(cfg, tier) ==
    IF tier \in DOMAIN cfg.tiers THEN <<cfg.tiers[tier]>>
    ELSE IF cfg.defaultTier \in DOMAIN cfg.tiers THEN <<cfg.tiers[cfg.defaultTier]>>
    ELSE <<>>

\* tierConfig.refillRate || 1
RefillRateOf(tierConfig) ==
    IF IsNum(tierConfig.refillRate) /\ ValOf(tierConfig.refillRate) # 0
    THEN ValOf(tierConfig.refillRate)
    ELSE 1

----------------------------------------------------------------------------
(* RateLimiterService *)

\* a rejection that is not counted
CountHitNever(hits, allowed) == hits

\* this._rateLimitHits++ on a rejection
CountHit(hits, allowed) == IF allowed THEN hits ELSE hits + 1

\* an unlimited answer that reports a limit of 0
UnlimitedResultZero ==
    [allowed |-> TRUE, remaining |-> 0, resetMs |-> Num(0), limit |-> Num(0)]

\* { allowed: true, remaining: -1, resetMs: 0, limit: -1 }
UnlimitedResult ==
    [allowed |-> TRUE, remaining |-> -1, resetMs |-> Num(0), limit |-> Num(-1)]

\* checkLimit with its two stages rearranged: tierFirst lets the tier
\* algorithm consume before the global ceiling decides, refund gives the unit
\* of the global window back when the tier algorithm rejects
CheckLimitVariant(ip, tier, tierFirst, refund) ==
    LET globalResult == FixedWindowCounterTryConsume(globalWindow, "__global__",
                            Num(config.globalLimit.maxRequests),
                            Num(config.globalLimit.windowMs), now)
        resolved == ResolveTier(config, tier)
        tierConfig == resolved[1]
        limited == /\ resolved # <<>>
                   /\ tierConfig.algorithm \in {"tokenBucket", "slidingWindow", "fixedWindow"}
        r == CASE tierConfig.algorithm = "tokenBucket" ->
                    TokenBucketTryConsume(tokenBucket, ip, tierConfig.maxRequests,
                                          RefillRateOf(tierConfig), now)
               [] tierConfig.algorithm = "slidingWindow" ->
                    SlidingWindowLogTryConsume(slidingWindow, ip, tierConfig.maxRequests,
                                               tierConfig.windowMs, now)
               [] tierConfig.algorithm = "fixedWindow" ->
                    FixedWindowCounterTryConsume(fixedWindow, ip, tierConfig.maxRequests,
                                                 tierConfig.windowMs, now)
        Outcome(global, consumed, stage, res) ==
            [globalWindow |-> global,
             tokenBucket |-> IF consumed /\ tierConfig.algorithm = "tokenBucket"
                             THEN r.state ELSE tokenBucket,
             slidingWindow |-> IF consumed /\ tierConfig.algorithm = "slidingWindow"
                               THEN r.state ELSE slidingWindow,
             fixedWindow |-> IF consumed /\ tierConfig.algorithm = "fixedWindow"
                             THEN r.state ELSE fixedWindow,
             hits |-> CountHit(rateLimitHits, res.allowed), stage |-> stage, result |-> res]
    IN  IF ~globalResult.allowed
        THEN Outcome(globalResult.state, tierFirst /\ limited, "global",
                     [allowed |-> FALSE, remaining |-> 0,
                      resetMs |-> globalResult.resetMs,
                      limit |-> Num(config.globalLimit.maxRequests)])
        ELSE IF ~limited
        THEN Outcome(globalResult.state, FALSE, "none", UnlimitedResult)
        ELSE Outcome(IF refund /\ ~r.allowed
                     THEN [globalResult.state EXCEPT !["__global__"].count = @ - 1]
                     ELSE globalResult.state,
                     TRUE, tierConfig.algorithm,
                     [allowed |-> r.allowed, remaining |-> r.remaining,
                      resetMs |-> r.resetMs, limit |-> tierConfig.maxRequests])

\* a checkLimit whose tier algorithm consumes before the global ceiling decides
CheckLimitOutcomeTierFirst(ip, tier) == CheckLimitVariant(ip, tier, TRUE, FALSE)

\* a checkLimit that counts in the global window only the calls the tier admits
CheckLimitOutcomeRefunding(ip, tier) == CheckLimitVariant(ip, tier, FALSE, TRUE)

\* a checkLimit that keeps the state of a client under its tier name and its IP
CheckLimitOutcomePerTier(ip, tier) ==
    LET globalResult == FixedWindowCounterTryConsume(globalWindow, "__global__",
                            Num(config.globalLimit.maxRequests),
                            Num(config.globalLimit.windowMs), now)
        resolved == ResolveTier(config, tier)
        tierConfig == resolved[1]
        Untouched(stage, res) ==
            [globalWindow |-> globalResult.state, tokenBucket |-> tokenBucket,
             slidingWindow |-> slidingWindow, fixedWindow |-> fixedWindow,
             hits |-> CountHit(rateLimitHits, res.allowed), stage |-> stage, result |-> res]
        WithLimit(r) == [allowed |-> r.allowed, remaining |-> r.remaining,
                         resetMs |-> r.resetMs, limit |-> tierConfig.maxRequests]
    IN  IF ~globalResult.allowed
        THEN Untouched("global", [allowed |-> FALSE, remaining |-> 0,
                                  resetMs |-> globalResult.resetMs,
                                  limit |-> Num(config.globalLimit.maxRequests)])
        ELSE IF resolved = <<>> \/ tierConfig.algorithm = "none"
        THEN Untouched("none", UnlimitedResult)
        ELSE CASE tierConfig.algorithm = "tokenBucket" ->
                    LET r == TokenBucketTryConsume(tokenBucket, tier \o "/" \o ip, tierConfig.maxRequests,
                                                   RefillRateOf(tierConfig), now)
                    IN  [Untouched("tokenBucket", WithLimit(r)) EXCEPT !.tokenBucket = r.state]
               [] tierConfig.algorithm = "slidingWindow" ->
                    LET r == SlidingWindowLogTryConsume(slidingWindow, tier \o "/" \o ip, tierConfig.maxRequests,
                                                        tierConfig.windowMs, now)
                    IN  [Untouched("slidingWindow", WithLimit(r)) EXCEPT !.slidingWindow = r.state]
               [] tierConfig.algorithm = "fixedWindow" ->
                    LET r == FixedWindowCounterTryConsume(fixedWindow, tier \o "/" \o ip, tierConfig.maxRequests,
                                                          tierConfig.windowMs, now)
                    IN  [Untouched("fixedWindow", WithLimit(r)) EXCEPT !.fixedWindow = r.state]
               [] OTHER -> Untouched("none", UnlimitedResult)

\* What checkLimit(ip, tier) does at clock reading now: the new limiter maps,
\* the new hit counter, the stage that decided, and the returned object.
CheckLimitOutcome(ip, tier) ==
    LET globalResult == FixedWindowCounterTryConsume(globalWindow, "__global__",
                            Num(config.globalLimit.maxRequests),
                            Num(config.globalLimit.windowMs), now)
        resolved == ResolveTier(config, tier)
        tierConfig == resolved[1]
        Untouched(stage, res) ==
            [globalWindow |-> globalResult.state, tokenBucket |-> tokenBucket,
             slidingWindow |-> slidingWindow, fixedWindow |-> fixedWindow,
             hits |-> CountHit(rateLimitHits, res.allowed), stage |-> stage, result |-> res]
        WithLimit(r) == [allowed |-> r.allowed, remaining |-> r.remaining,
                         resetMs |-> r.resetMs, limit |-> tierConfig.maxRequests]
    IN  IF ~globalResult.allowed
        THEN Untouched("global", [allowed |-> FALSE, remaining |-> 0,
                                  resetMs |-> globalResult.resetMs,
                                  limit |-> Num(config.globalLimit.maxRequests)])
        ELSE IF resolved = <<>> \/ tierConfig.algorithm = "none"
        THEN Untouched("none", UnlimitedResult)
        ELSE CASE tierConfig.algorithm = "tokenBucket" ->
                    LET r == TokenBucketTryConsume(tokenBucket, ip, tierConfig.maxRequests,
                                                   RefillRateOf(tierConfig), now)
                    IN  [Untouched("tokenBucket", WithLimit(r)) EXCEPT !.tokenBucket = r.state]
               [] tierConfig.algorithm = "slidingWindow" ->
                    LET r == SlidingWindowLogTryConsume(slidingWindow, ip, tierConfig.maxRequests,
                                                        tierConfig.windowMs, now)
                    IN  [Untouched("slidingWindow", WithLimit(r)) EXCEPT !.slidingWindow = r.state]
               [] tierConfig.algorithm = "fixedWindow" ->
                    LET r == FixedWindowCounterTryConsume(fixedWindow, ip, tierConfig.maxRequests,
                                                          tierConfig.windowMs, now)
                    IN  [Untouched("fixedWindow", WithLimit(r)) EXCEPT !.fixedWindow = r.state]
               [] OTHER -> Untouched("none", UnlimitedResult)

----------------------------------------------------------------------------
(* TOTP utilities (backend/utils/totp) *)

TIME_WINDOW_MS == 3600 * 1000

\* Math.floor(t / TIME_WINDOW_MS)
WindowIndex(t) == t \div TIME_WINDOW_MS

\* parts.join('_')
RECURSIVE Join(_)
Join(parts) ==
    IF Len(parts) = 0 THEN ""
    ELSE IF Len(parts) = 1 THEN parts[1]
    ELSE parts[1] \o "_" \o Join(Tail(parts))

\* crypto.createHmac('sha256', secret).update(message).digest('hex') cut to
\* its first CODE_LENGTH characters: the text below stands for that digest,
\* and differs whenever the secret or the message differs
Hmac(secret, message) == "hmac(" \o secret \o "," \o message \o ")"

\* generateTOTP read at the clock value t
generateTOTP(browserId, secret, timeOffset, t) ==
    LET timeWindow == WindowIndex(t) + timeOffset
        message == Join(browserId) \o ":" \o ToString(timeWindow)
    IN  Hmac(secret, message)

timingSafeEqual(a, b) == IF Len(a) # Len(b) THEN FALSE ELSE a = b

\* a validation that knows the current window only
validateTOTPCurrentOnly(browserId, secret, providedCode, t) ==
    timingSafeEqual(providedCode, generateTOTP(browserId, secret, 0, t))

\* validateTOTP read at the clock value t
validateTOTP(browserId, secret, providedCode, t) ==
    LET currentCode == generateTOTP(browserId, secret, 0, t)
        previousCode == generateTOTP(browserId, secret, -1, t)
    IN  \/ timingSafeEqual(providedCode, currentCode)
        \/ timingSafeEqual(providedCode, previousCode)

\* `totp_${browserId}_${code}`
formatKey(browserId, code) == <<"totp">> \o browserId \o <<code>>

\* key.startsWith('totp_')
StartsWithTotp(key) == Len(key) >= 2 /\ key[1] = "totp"

\* a parseKey that takes the first segment after the prefix for the browserId
parseKeyFirstSegment(key) ==
    IF ~StartsWithTotp(key) THEN <<>>
    ELSE LET parts == Tail(key)
         IN  IF Len(parts) < 2 THEN <<>>
             ELSE LET code == parts[Len(parts)]
                      browserId == <<parts[1]>>
                  IN  IF browserId = <<"">> \/ code = "" THEN <<>>
                      ELSE <<[browserId |-> browserId, code |-> code]>>

\* <<[browserId, code]>>, or <<>> for null
parseKey(key) ==
    IF ~StartsWithTotp(key) THEN <<>>
    ELSE LET parts == Tail(key)
         IN  IF Len(parts) < 2 THEN <<>>
             ELSE LET code == parts[Len(parts)]
                      browserId == SubSeq(parts, 1, Len(parts) - 1)
                  IN  IF browserId = <<"">> \/ code = "" THEN <<>>
                      ELSE <<[browserId |-> browserId, code |-> code]>>

\* the n-th value generateSecret() returns: 32 random bytes never repeat
generateSecret(n) == "secret" \o ToString(n)

BrowserIds == {<<"0b5e-01">>, <<"0b5e-02">>}

\* the browserIds that register; the others are only ever presented in keys
RegisteringIds == {<<"0b5e-01">>}

Secrets == {generateSecret(1), generateSecret(2)}

\* codes a client may present that no HMAC produced
WrongCodes == {"0000000000000000", "00"}

\* no code has been generated and validateTOTP has not been called
TotpIdle ==
    totp = [code |-> "", browserId |-> <<>>, secret |-> "", window |-> 0,
            validated |-> FALSE, asBrowserId |-> <<>>, asSecret |-> "", valid |-> FALSE,
            key |-> <<>>, formatted |-> <<>>, parsed |-> <<>>]

----------------------------------------------------------------------------
(* DeviceRegistryService *)

ONE_WEEK_MS == 7 * 24 * 60 * 60 * 1000
CLEANUP_INTERVAL_MS == 60 * 60 * 1000
DEBOUNCE_WRITE_MS == 2000
MAX_REGISTRATIONS_PER_IP_PER_MIN == 10
MAX_REGISTRATIONS_PER_IP_TOTAL == 30
RATE_WINDOW_MS == 60 * 1000

\* new Date(t).toISOString(): the text of the instant t, to the millisecond
toISOString(t) == [iso |-> t]

\* new Date(text).getTime()
getTime(text) == text.iso

\* map.get(key) || fallback
GetOr(map, key, fallback) == IF key \in DOMAIN map THEN map[key] ELSE fallback

\* map.delete(key)
MapDelete(map, keys) == [k \in DOMAIN map \ keys |-> map[k]]

\* debouncedSave at the clock value t: the pending timer is cleared and a new
\* one is armed; the result is the new writeTimeout
debouncedSave(t) == Num(t + DEBOUNCE_WRITE_MS)

\* a clearTimeout that cancels nothing
clearTimeoutNothing(pending, handle) == pending

\* clearTimeout(handle) on the pending timers
clearTimeout(pending, handle) == pending \ {handle[i] : i \in DOMAIN handle}

\* a setTimeout that leaves the timer of the old handle pending
setTimeoutKeepingOld(pending, handle, armed) ==
    pending \cup {armed[i] : i \in DOMAIN armed}

\* debouncedSave: if (this.writeTimeout) clearTimeout(this.writeTimeout), and
\* setTimeout arms the timer of the new handle
setTimeout(pending, handle, armed) ==
    clearTimeout(pending, handle) \cup {armed[i] : i \in DOMAIN armed}

\* JSON.stringify({devices: Array.from(this.devices.values())}): the entries
\* the file holds
DevicesFile(devs) == {devs[id] : id \in DOMAIN devs}

\* the pending timers after a call that left the handle before as the handle
\* after: a call of debouncedSave leaves a handle with a later deadline, or
\* the handle of the same, still pending, timer
timersAfter(before, after) ==
    /\ timers' = IF after = before THEN timers ELSE setTimeout(timers, before, after)
    /\ UNCHANGED <<file, saves, thrown, destroyed>>

\* the devices cleanupExpired removes at the clock value t
ExpiredIds(devs, t) == {id \in DOMAIN devs : getTime(devs[id].expiresAt) <= t}

\* [devices, writeTimeout] after cleanupExpired
cleanupExpiredOutcome(devs, timeout, t) ==
    LET removed == ExpiredIds(devs, t)
    IN  [devices |-> MapDelete(devs, removed),
         writeTimeout |-> IF Cardinality(removed) > 0 THEN debouncedSave(t) ELSE timeout]

\* a count that takes the revoked devices for active ones
getActiveCountByIpAnyFlag(devs, ip, t) ==
    Cardinality({id \in DOMAIN devs :
                    /\ devs[id].ip = ip
                    /\ getTime(devs[id].expiresAt) > t})

getActiveCountByIp(devs, ip, t) ==
    Cardinality({id \in DOMAIN devs :
                    /\ devs[id].ip = ip
                    /\ devs[id].active
                    /\ getTime(devs[id].expiresAt) > t})

\* a rate window that also keeps the attempts made exactly RATE_WINDOW_MS ago
recentAttemptsInclusive(attempts, ip, t) ==
    SelectSeq(GetOr(attempts, ip, <<>>), LAMBDA a : t - a <= RATE_WINDOW_MS)

\* checkRateLimit: attempts.filter(a => now - a < RATE_WINDOW_MS)
recentAttempts(attempts, ip, t) ==
    SelectSeq(GetOr(attempts, ip, <<>>), LAMBDA a : t - a < RATE_WINDOW_MS)

\* an existing entry that is handed back with the expiry it had
reRegisteredKeepsExpiry(existing, ip, t) == [existing EXCEPT !.lastIp = ip]

\* registerDevice, lines 247-250: the existing entry with its expiry refreshed
reRegistered(existing, ip, t) ==
    [existing EXCEPT !.expiresAt = toISOString(t + ONE_WEEK_MS), !.lastIp = ip]

\* a new entry that is given the first generated secret again
newDeviceFirstSecret(browserId, ip, t, n) ==
    [browserId |-> browserId,
     sharedSecret |-> generateSecret(1),
     ip |-> ip,
     expiresAt |-> toISOString(t + ONE_WEEK_MS),
     lastIp |-> ip,
     active |-> TRUE]

\* registerDevice, lines 255-266: a new entry with the n-th generated secret
newDevice(browserId, ip, t, n) ==
    [browserId |-> browserId,
     sharedSecret |-> generateSecret(n),
     ip |-> ip,
     expiresAt |-> toISOString(t + ONE_WEEK_MS),
     lastIp |-> ip,
     active |-> TRUE]

\* what registerDevice returns
Registered(device) == [success |-> TRUE, status |-> 0, device |-> <<device>>]
Refused(status) == [success |-> FALSE, status |-> status, device |-> <<>>]

\* What registerDevice(browserId, ip, userAgent) does at the clock value t:
\* the new maps, the new writeTimeout, the number of secrets generated so
\* far, and the returned object.  A DeviceEntry is kept without userAgent,
\* registeredAt and lastSeen, which the service stores and never reads.
registerDeviceOutcome(browserId, ip, t) ==
    LET recent == recentAttempts(registrationAttempts, ip, t)
        pruned == MapSet(registrationAttempts, ip, recent)
        recorded == MapSet(pruned, ip, Append(recent, t))
        Same(attempts, result) ==
            [devices |-> devices, registrationAttempts |-> attempts,
             writeTimeout |-> writeTimeout, issued |-> issued, result |-> result]
    IN  IF ~(Len(recent) < MAX_REGISTRATIONS_PER_IP_PER_MIN)
        THEN Same(pruned, Refused(429))
        ELSE IF getActiveCountByIp(devices, ip, t) >= MAX_REGISTRATIONS_PER_IP_TOTAL
        THEN Same(recorded, Refused(403))
        ELSE IF /\ browserId \in DOMAIN devices
                /\ devices[browserId].active
                /\ getTime(devices[browserId].expiresAt) > t
        THEN LET existing == reRegistered(devices[browserId], ip, t)
             IN  [devices |-> MapSet(devices, browserId, existing),
                  registrationAttempts |-> recorded,
                  writeTimeout |-> debouncedSave(t),
                  issued |-> issued,
                  result |-> Registered(existing)]
        ELSE LET device == newDevice(browserId, ip, t, issued + 1)
             IN  [devices |-> MapSet(devices, browserId, device),
                  registrationAttempts |-> recorded,
                  writeTimeout |-> debouncedSave(t),
                  issued |-> issued + 1,
                  result |-> Registered(device)]

\* a getDevice that answers null for an expired entry and leaves it in the map
getDeviceKeepingExpired(devs, timeout, browserId, t) ==
    IF browserId \notin DOMAIN devs
    THEN [devices |-> devs, writeTimeout |-> timeout, device |-> <<>>]
    ELSE IF getTime(devs[browserId].expiresAt) <= t \/ ~devs[browserId].active
    THEN [devices |-> devs, writeTimeout |-> timeout, device |-> <<>>]
    ELSE [devices |-> devs, writeTimeout |-> timeout, device |-> <<devs[browserId]>>]

\* What getDevice(browserId) does at the clock value t: the new map, the new
\* writeTimeout and the returned entry (<<>> for null)
getDeviceOutcome(devs, timeout, browserId, t) ==
    IF browserId \notin DOMAIN devs
    THEN [devices |-> devs, writeTimeout |-> timeout, device |-> <<>>]
    ELSE IF getTime(devs[browserId].expiresAt) <= t
    THEN [devices |-> MapDelete(devs, {browserId}),
          writeTimeout |-> debouncedSave(t), device |-> <<>>]
    ELSE IF ~devs[browserId].active
    THEN [devices |-> devs, writeTimeout |-> timeout, device |-> <<>>]
    ELSE [devices |-> devs, writeTimeout |-> timeout, device |-> <<devs[browserId]>>]

\* a revokeDevice that deletes the entry
revokeDeviceDeleting(devs, timeout, browserId, t) ==
    IF browserId \notin DOMAIN devs
    THEN [devices |-> devs, writeTimeout |-> timeout, result |-> FALSE]
    ELSE [devices |-> MapDelete(devs, {browserId}),
          writeTimeout |-> debouncedSave(t), result |-> TRUE]

\* What revokeDevice(browserId) does at the clock value t: the new map, the
\* new writeTimeout and the returned boolean
revokeDeviceOutcome(devs, timeout, browserId, t) ==
    IF browserId \notin DOMAIN devs
    THEN [devices |-> devs, writeTimeout |-> timeout, result |-> FALSE]
    ELSE [devices |-> MapSet(devs, browserId, [devs[browserId] EXCEPT !.active = FALSE]),
          writeTimeout |-> debouncedSave(t), result |-> TRUE]

\* [devices, writeTimeout] after updateLastSeen(browserId, ip)
updateLastSeenOutcome(devs, timeout, browserId, ip, t) ==
    IF browserId \notin DOMAIN devs
    THEN [devices |-> devs, writeTimeout |-> timeout]
    ELSE [devices |-> MapSet(devs, browserId, [devs[browserId] EXCEPT !.lastIp = ip]),
          writeTimeout |-> debouncedSave(t)]

\* no registerDevice call has just been made
NoRegYet == [browserId |-> <<>>, ip |-> "", result |-> Refused(0)]

\* no DeviceRegistryService has been constructed (deviceRegistryPath is '')
NoDeviceRegistry ==
    /\ devices = <<>>
    /\ registrationAttempts = <<>>
    /\ writeTimeout = <<>>
    /\ cleanupInterval = <<>>
    /\ issued = 0
    /\ regs = 0
    /\ lastReg = NoRegYet
    /\ timers = {}
    /\ file = <<>>
    /\ saves = 0
    /\ thrown = ""
    /\ destroyed = FALSE

----------------------------------------------------------------------------
(* apiKeyAuth (backend/middleware/apiKeyAuth.ts) *)

\* an ApiKey of config.apiKeys.keys; name and createdAt are never read
Credential(id, key, tier, active) ==
    [id |-> id, key |-> key, tier |-> tier, active |-> active]

\* a lookup that does not look at the active flag
findKeyIgnoringActive(keys, apiKey) ==
    LET hits == {i \in 1..Len(keys) : keys[i].key = apiKey}
    IN  IF hits = {} THEN <<>>
        ELSE <<keys[CHOOSE i \in hits : \A j \in hits : i <= j]>>

\* config.keys.find(k => k.key === apiKey && k.active): <<entry>>, <<>> for undefined
findKey(keys, apiKey) ==
    LET hits == {i \in 1..Len(keys) : keys[i].key = apiKey /\ keys[i].active}
    IN  IF hits = {} THEN <<>>
        ELSE <<keys[CHOOSE i \in hits : \A j \in hits : i <= j]>>

\* the validateTOTP function an application may install: it knows one session
SessionKey == <<"totp", "session", "c0de">>
sessionValidator(apiKey) ==
    IF apiKey = SessionKey THEN <<[sessionId |-> "session-1"]>> ELSE <<>>

\* res.status(401).json({ error })
Unauthorized(devs, timeout, error) ==
    [next |-> FALSE, status |-> 401, error |-> error, clientId |-> "",
     tier |-> "", apiKeyValue |-> <<>>, devices |-> devs, writeTimeout |-> timeout]

\* the request is given an identity and next() is called
Identified(devs, timeout, clientId, tier, apiKeyValue) ==
    [next |-> TRUE, status |-> 0, error |-> "", clientId |-> clientId,
     tier |-> tier, apiKeyValue |-> apiKeyValue, devices |-> devs,
     writeTimeout |-> timeout]

\* a device that is found but answered for in words of its own
deviceMissingDistinct(found) ==
    IF found THEN "Device revoked or expired" ELSE "Device not registered or expired"

\* the body of the 401 given when getDevice returns null
deviceMissing(found) == "Device not registered or expired"

\* What apiKeyAuth does at the clock value t for a request from ip that
\* presents apiKey (<<>> when it presents none), over the registry map devs
\* and its pending timer: whether next() is called, the response otherwise,
\* the identity put on the request, and the registry afterwards.
apiKeyAuthOutcome(devs, timeout, ip, apiKey, t) ==
    IF apiKey = <<>> \/ apiKey = <<"">>
    THEN Identified(devs, timeout, ip, "free", <<>>)
    ELSE IF StartsWithTotp(apiKey) /\ customTotpValidator
    THEN LET result == sessionValidator(apiKey)
         IN  IF result = <<>>
             THEN Unauthorized(devs, timeout, "Invalid or expired TOTP session")
             ELSE Identified(devs, timeout, result[1].sessionId, "free", <<apiKey>>)
    ELSE IF StartsWithTotp(apiKey) /\ deviceRegistry
    THEN LET parsed == parseKey(apiKey)
         IN  IF parsed = <<>>
             THEN Unauthorized(devs, timeout, "Malformed TOTP key")
             ELSE LET got == getDeviceOutcome(devs, timeout, parsed[1].browserId, t)
                  IN  IF got.device = <<>>
                      THEN Unauthorized(got.devices, got.writeTimeout,
                                        deviceMissing(parsed[1].browserId \in DOMAIN devs))
                      ELSE IF ~validateTOTP(parsed[1].browserId, got.device[1].sharedSecret,
                                            parsed[1].code, t)
                      THEN Unauthorized(got.devices, got.writeTimeout,
                                        "Invalid or expired TOTP code")
                      ELSE LET seen == updateLastSeenOutcome(got.devices, got.writeTimeout,
                                                             parsed[1].browserId, ip, t)
                           IN  Identified(seen.devices, seen.writeTimeout,
                                          Join(parsed[1].browserId), "free", <<apiKey>>)
    ELSE LET keyEntry == findKey(apiKeys, apiKey)
         IN  IF keyEntry = <<>>
             THEN Unauthorized(devs, timeout, "Invalid or revoked API key")
             ELSE Identified(devs, timeout, keyEntry[1].id, keyEntry[1].tier,
                             <<keyEntry[1].key>>)

\* what the client sees of an apiKeyAuth outcome
Response(out) == [next |-> out.next, status |-> out.status, error |-> out.error]

\* apiKeyAuth has not handled a request
NoAuthYet ==
    [apiKey |-> <<>>, calls |-> 0, next |-> FALSE, status |-> 0, error |-> "",
     clientId |-> "", tier |-> "", apiKeyValue |-> <<>>]

\* createApiKeyAuth with the default key list, no registry and no validator
AuthIdle ==
    /\ apiKeys = <<>>
    /\ deviceRegistry = FALSE
    /\ customTotpValidator = FALSE
    /\ lastAuth = NoAuthYet

----------------------------------------------------------------------------
(* FileLogWriter (backend/services/FileLogWriter.ts)                        *)
(* A date is the number of its day, a time of day the number of its second, *)
(* and a file name {appName}_{date}_{time}_{NNN}.log the three that vary:   *)
(* <<date, time, NNN>>.                                                     *)

\* String(n).padStart(3, '0')
padStart3(n) ==
    IF n < 10 THEN "00" \o ToString(n)
    ELSE IF n < 100 THEN "0" \o ToString(n)
    ELSE ToString(n)

DEFAULT_LOG_MAX_LINES == 10000

DAY_MS == 24 * 3600 * 1000

\* formatDate(new Date(t))
formatDate(t) == t \div DAY_MS

\* formatTime(new Date(t))
formatTime(t) == (t % DAY_MS) \div 1000

\* parseInt(text, 10) of the last segment of a file name
parseInt(text) ==
    IF \E n \in 0..999 : padStart3(n) = text
    THEN Num(CHOOSE n \in 0..999 : padStart3(n) = text)
    ELSE NaN

\* FileLogWriter.scanExistingFiles(date)
scanExistingFiles(dir, date) ==
    LET files == {f \in DOMAIN dir : f[1] = date}
        indices == {ValOf(parseInt(f[3])) : f \in {g \in files : IsNum(parseInt(g[3]))}}
        maxIndex == IF indices = {} THEN 0
                    ELSE CHOOSE n \in indices : \A m \in indices : m <= n
    IN  IF files = {} THEN 1 ELSE maxIndex + 1

\* FileLogWriter.rotateFile() at the clock value t
rotateFile(writer, t) ==
    [writer EXCEPT !.currentFilePath =
        <<(<<writer.currentDate, formatTime(t), padStart3(writer.fileIndex)>>)>>]

\* new FileLogWriter(config) at the clock value t over the directory dir;
\* maxLinesPerFile is <<n>>, or <<>> when the config leaves it out.  History:
\* writes holds the date and the outcome of every write(), found the files
\* of dir.
NewFileLogWriter(maxLinesPerFile, dir, t) ==
    rotateFile([maxLines |-> IF maxLinesPerFile = <<>> THEN DEFAULT_LOG_MAX_LINES
                             ELSE maxLinesPerFile[1],
                currentDate |-> formatDate(t),
                currentLines |-> 0,
                fileIndex |-> scanExistingFiles(dir, formatDate(t)),
                currentFilePath |-> <<>>,
                destroyed |-> FALSE,
                writes |-> <<>>,
                found |-> DOMAIN dir], t)

\* write(): the date rollover
dateRollover(writer, dir, today, t) ==
    IF today # writer.currentDate
    THEN rotateFile([writer EXCEPT !.currentDate = today,
                                   !.fileIndex = 1,
                                   !.currentLines = 0], t)
    ELSE writer

\* write(): the line-limit rotation
lineLimitRotation(writer, t) ==
    IF writer.currentLines >= writer.maxLines
    THEN rotateFile([writer EXCEPT !.fileIndex = @ + 1, !.currentLines = 0], t)
    ELSE writer

\* [writer, dir] after FileLogWriter.write(log) at the clock value t, for a
\* log whose timestamp is timestamp; appended tells whether appendFileSync
\* returns or throws
writeOutcome(writer, dir, timestamp, appended, t) ==
    IF writer.destroyed THEN [writer |-> writer, dir |-> dir]
    ELSE LET rotated == lineLimitRotation(
                            dateRollover(writer, dir, formatDate(timestamp), t), t)
             path == rotated.currentFilePath[1]
             called == [rotated EXCEPT
                           !.writes = Append(@, <<formatDate(timestamp), appended>>)]
         IN  IF appended
             THEN [writer |-> [called EXCEPT !.currentLines = @ + 1],
                   dir |-> MapSet(dir, path, GetOr(dir, path, 0) + 1)]
             ELSE [writer |-> called, dir |-> dir]

\* no FileLogWriter has been constructed
NoFileLogWriter ==
    /\ fileLogWriter = <<>>
    /\ logDir = <<>>

----------------------------------------------------------------------------
(* The middleware pipeline (backend/middleware/gateway.ts) and the key      *)
(* management routes (backend/routes/gateway.ts)                            *)

\* a pipeline that installs the log hook after authentication
StagesAuthFirst == <<"apiKeyAuth", "requestLogger", "ipFilter", "rateLimiter">>

\* router.use(...), in the order of the calls
Stages == <<"requestLogger", "apiKeyAuth", "ipFilter", "rateLimiter">>

StageIndex(stage) == CHOOSE i \in 1..Len(Stages) : Stages[i] = stage

IpRules(mode, allowlist, blocklist) ==
    [mode |-> mode, allowlist |-> allowlist, blocklist |-> blocklist]

DEFAULT_IP_RULES == IpRules("blocklist", {}, {})

\* the ipRules a gateway is configured with
RuleSets ==
    {DEFAULT_IP_RULES,
     IpRules("blocklist", {}, {"10.0.0.2"}),
     IpRules("allowlist", {"10.0.0.1"}, {"10.0.0.2"})}

\* a stage's decision: next() called, or a response with a status and an error
Passed == [next |-> TRUE, status |-> 0, error |-> ""]
Answered(status, error) == [next |-> FALSE, status |-> status, error |-> error]

\* an IP filter whose allowlist lets nobody in while it is empty
ipFilterEmptyAllowlist(rules, clientIp) ==
    IF rules.mode = "allowlist" /\ clientIp \notin rules.allowlist
    THEN Answered(403, "IP not in allowlist")
    ELSE IF rules.mode = "blocklist" /\ rules.blocklist # {} /\ clientIp \in rules.blocklist
    THEN Answered(403, "IP is blocked")
    ELSE Passed

\* an IP filter that answers 403 and goes on to call next()
ipFilterFallsThrough(rules, clientIp) ==
    IF rules.mode = "allowlist" /\ rules.allowlist # {} /\ clientIp \notin rules.allowlist
    THEN [Answered(403, "IP not in allowlist") EXCEPT !.next = TRUE]
    ELSE IF rules.mode = "blocklist" /\ rules.blocklist # {} /\ clientIp \in rules.blocklist
    THEN [Answered(403, "IP is blocked") EXCEPT !.next = TRUE]
    ELSE Passed

\* the ipFilter middleware
ipFilter(rules, clientIp) ==
    IF rules.mode = "allowlist" /\ rules.allowlist # {} /\ clientIp \notin rules.allowlist
    THEN Answered(403, "IP not in allowlist")
    ELSE IF rules.mode = "blocklist" /\ rules.blocklist # {} /\ clientIp \in rules.blocklist
    THEN Answered(403, "IP is blocked")
    ELSE Passed

\* Math.ceil(ms / 1000), NaN for NaN
CeilSeconds(ms) == IF IsNum(ms) THEN Num(CeilDiv(ValOf(ms), 1000)) ELSE NaN

\* the X-RateLimit-* headers the rateLimiter middleware sets for what
\* checkLimit returned, <<>> when it sets none
RateLimitHeaders(result) ==
    IF JsLt(Num(0), result.limit)
    THEN <<[Limit |-> result.limit,
            Remaining |-> IF result.remaining < 0 THEN 0 ELSE result.remaining,
            Reset |-> CeilSeconds(result.resetMs)]>>
    ELSE <<>>

\* a rateLimiter middleware that sets the headers whatever the limit is
rateLimiterAlwaysHeaders(result) ==
    LET set == <<[Limit |-> result.limit,
                  Remaining |-> IF result.remaining < 0 THEN 0 ELSE result.remaining,
                  Reset |-> CeilSeconds(result.resetMs)]>>
    IN  IF ~result.allowed
        THEN Answered(429, "Rate limit exceeded") @@
             [headers |-> set, retryAfter |-> <<CeilSeconds(result.resetMs)>>]
        ELSE Passed @@ [headers |-> set, retryAfter |-> <<>>]

\* the rateLimiter middleware on what checkLimit returned: the headers, and
\* either the 429 with its retryAfter (<<retryAfter>>) or next()
rateLimiter(result) ==
    IF ~result.allowed
    THEN Answered(429, "Rate limit exceeded") @@
         [headers |-> RateLimitHeaders(result),
          retryAfter |-> <<CeilSeconds(result.resetMs)>>]
    ELSE Passed @@ [headers |-> RateLimitHeaders(result), retryAfter |-> <<>>]

\* (req as any).tier || 'free'
TierOrFree(tier) == IF tier = "" THEN "free" ELSE tier

MAX_LOG_SIZE == 10000

\* new AnalyticsService()
NoLogs == [logs |-> <<>>, head |-> 0, count |-> 0]

\* an addLog that puts the record before the ones the buffer holds
addLogInFront(buffer, log) ==
    [buffer EXCEPT !.logs = <<log>> \o @, !.count = @ + 1]

\* an addLog that overwrites where head points and leaves head there
addLogHeadStays(buffer, log) ==
    IF buffer.count < MAX_LOG_SIZE
    THEN [buffer EXCEPT !.logs = Append(@, log), !.count = @ + 1]
    ELSE [buffer EXCEPT !.logs[buffer.head + 1] = log]

\* AnalyticsService.addLog(log); logs[i] of the code is logs[i + 1] here
addLog(buffer, log) ==
    IF buffer.count < MAX_LOG_SIZE
    THEN [buffer EXCEPT !.logs = Append(@, log), !.count = @ + 1]
    ELSE [buffer EXCEPT !.logs[buffer.head + 1] = log,
                        !.head = (@ + 1) % MAX_LOG_SIZE]

\* [...array].reverse()
reverse(array) == [i \in 1..Len(array) |-> array[Len(array) - i + 1]]

\* Array.prototype.slice(start, end): a negative index counts from the end,
\* and both are brought into 0..length
slice(array, start, end) ==
    LET clamp(k) == IF k < 0
                    THEN (IF Len(array) + k < 0 THEN 0 ELSE Len(array) + k)
                    ELSE (IF k > Len(array) THEN Len(array) ELSE k)
    IN  SubSeq(array, clamp(start) + 1, clamp(end))

\* an ordered read that takes the array to be in insertion order
getOrderedLogsNoSplit(buffer) == reverse(buffer.logs)

\* AnalyticsService.getOrderedLogs(): newest first
getOrderedLogs(buffer) ==
    IF buffer.count < MAX_LOG_SIZE
    THEN reverse(buffer.logs)
    ELSE LET tail == slice(buffer.logs, 0, buffer.head)
             headPart == slice(buffer.logs, buffer.head, Len(buffer.logs))
         IN  reverse(headPart \o tail)

\* AnalyticsService.getRecentLogs(limit, offset)
getRecentLogs(buffer, limit, offset) ==
    slice(getOrderedLogs(buffer), offset, offset + limit)

\* getAnalytics().totalRequests
totalRequests(buffer) == buffer.count

\* a rounding that cuts the quotient to the integer below it
RoundDown(n, d) == n \div d

\* Math.round(n / d) for n >= 0 and d > 0: the nearest integer, the upper one
\* of two that are equally near.  The quotient is taken exactly.
Round(n, d) == (2 * n + d) \div (2 * d)

\* the sum of f over the set S
RECURSIVE SumOf(_, _)
SumOf(f(_), S) ==
    IF S = {} THEN 0
    ELSE LET x == CHOOSE y \in S : TRUE
         IN  f(x) + SumOf(f, S \ {x})

\* ordered.reduce((sum, l) => sum + l.responseTime, 0): each response time
\* times the number of records that carry it
totalResponseTime(ordered) ==
    LET times == {ordered[i].responseTime : i \in DOMAIN ordered}
        weighted(t) == t * Cardinality({i \in DOMAIN ordered : ordered[i].responseTime = t})
    IN  SumOf(weighted, times)

\* endpointCounts: a Map keeps its keys in the order they were first set
endpointCounts(ordered) ==
    LET paths == {ordered[i].path : i \in DOMAIN ordered}
        first == [p \in paths |->
                    CHOOSE i \in DOMAIN ordered :
                        ordered[i].path = p /\ \A j \in 1..(i - 1) : ordered[j].path # p]
        count == [p \in paths |->
                    Cardinality({i \in DOMAIN ordered : ordered[i].path = p})]
        place == [p \in paths |-> Cardinality({q \in paths : first[q] < first[p]}) + 1]
    IN  [k \in 1..Cardinality(paths) |->
            LET p == CHOOSE q \in paths : place[q] = k
            IN  [path |-> p, count |-> count[p]]]

\* entries.sort((a, b) => b.count - a.count): the sort is stable
RECURSIVE sortByCount(_)
sortByCount(entries) ==
    IF entries = <<>> THEN <<>>
    ELSE LET e == Head(entries)
             rest == sortByCount(Tail(entries))
             k == Cardinality({i \in DOMAIN rest : rest[i].count > e.count})
         IN  SubSeq(rest, 1, k) \o <<e>> \o SubSeq(rest, k + 1, Len(rest))

\* AnalyticsService.getAnalytics(rateLimitHits): the fields computed over the
\* whole buffer.  errorRate and avgResponseTime are in hundredths.
getAnalytics(buffer, hits) ==
    LET ordered == getOrderedLogs(buffer)
        errorCount == Cardinality({i \in DOMAIN ordered : ordered[i].statusCode >= 400})
    IN  [totalRequests |-> buffer.count,
         topEndpoints |-> slice(sortByCount(endpointCounts(ordered)), 0, 5),
         errorRate |-> IF buffer.count > 0
                       THEN Round(errorCount * 100 * 100, buffer.count)
                       ELSE 0,
         avgResponseTime |-> IF buffer.count > 0
                             THEN Round(totalResponseTime(ordered) * 100, buffer.count)
                             ELSE 0,
         rateLimitHits |-> hits]

\* a RequestLog as a caller of addLog builds it
makeLog(statusCode, path, responseTime, t) ==
    [request |-> 0, timestamp |-> t, statusCode |-> statusCode,
     clientId |-> "key_001", ip |-> "127.0.0.1", apiKey |-> <<>>,
     path |-> path, responseTime |-> responseTime]

\* the record the 'finish' callback of requestLogger builds at the clock value
\* t from the request and its response; id tells the requests apart, as
\* method, path and start time do in the program
RequestLog(id, pending, t) ==
    [request |-> id,
     timestamp |-> t,
     statusCode |-> pending.statusCode,
     clientId |-> IF pending.clientId # "" THEN pending.clientId ELSE pending.ip,
     ip |-> pending.ip,
     apiKey |-> pending.apiKeyValue]

\* crypto.randomBytes(16).toString('hex'): the draw made for the n-th entry of
\* the list; no two draws are equal
randomHex(n) == "r" \o ToString(n)

\* the entry POST /keys appends to a list of n entries
newKey(n, tier) ==
    Credential("key_" \o padStart3(n + 1), <<"gw", "live", randomHex(n + 1)>>,
               IF tier = "" THEN "free" ELSE tier, TRUE)

\* a revocation that leaves the entry as it was
deactivatedNot(entry) == entry

\* key.active = false
deactivated(entry) == [entry EXCEPT !.active = FALSE]

\* config.apiKeys.keys.find(k => k.id === keyId): its position, 0 for undefined
findById(keys, keyId) ==
    LET hits == {i \in 1..Len(keys) : keys[i].id = keyId}
    IN  IF hits = {} THEN 0 ELSE CHOOSE i \in hits : \A j \in hits : i <= j

\* the key lists a gateway is configured with: the default, and a list with
\* one key
ConfiguredKeys ==
    {<<>>, <<Credential("key_001", <<"gw", "live", "0a">>, "unlimited", TRUE)>>}

NoReqYet ==
    [id |-> 0, ip |-> "", apiKey |-> <<>>, ran |-> {}, hooked |-> FALSE,
     auth |-> Passed, statusCode |-> 0, error |-> "",
     clientId |-> "", tier |-> "", apiKeyValue |-> <<>>, filtered |-> <<>>,
     limited |-> <<>>]

NoKeyYet == [op |-> "", keyId |-> "", status |-> 0]

\* no getRecentLogs call has just been made
NoReadYet ==
    [called |-> FALSE, limit |-> 0, offset |-> 0, logs |-> <<>>, snapshot |-> <<>>]

\* createGatewayMiddleware() with the default ipRules, before any request
GatewayIdle ==
    /\ ipRules = DEFAULT_IP_RULES
    /\ analytics = NoLogs
    /\ inflight = <<>>
    /\ responses = <<>>
    /\ lastReq = NoReqYet
    /\ lastKey = NoKeyYet
    /\ logged = 0
    /\ lastRead = NoReadYet
    /\ streams = <<>>
    /\ NoFileLogWriter

----------------------------------------------------------------------------
(* History kept beside the program state, to state the claims *)

Min(a, b) == IF a <= b THEN a ELSE b

\* ip -> [first, n, still]: the time of the IP's first token-bucket call, and
\* the number of its token-bucket calls while the clock still reads that time
TbSeenAfter(ip, out) ==
    IF out.stage # "tokenBucket" THEN tbSeen
    ELSE IF ip \notin DOMAIN tbSeen
    THEN MapSet(tbSeen, ip, [first |-> now, n |-> 1, still |-> TRUE])
    ELSE LET s == tbSeen[ip]
             still == s.still /\ now = s.first
         IN  MapSet(tbSeen, ip, [first |-> s.first, still |-> still,
                                 n |-> IF still THEN s.n + 1 ELSE s.n])

\* ip -> [budget, admitted, start, advanced, active]: an episode opens with the
\* first call made after an idle time on a bucket that holds exactly 0 tokens;
\* budget = min(C, t * R) in milli-tokens for the idle time t, admitted counts
\* the calls admitted since, the episode closes with the next rejection, and
\* advanced records that the clock moved while the episode was open.
DrainAfter(ip, tier, out) ==
    LET tierConfig == ResolveTier(config, tier)[1]
    IN  IF out.stage # "tokenBucket" \/ ~IsNum(tierConfig.maxRequests) THEN drain
        ELSE LET a == IF out.result.allowed THEN 1 ELSE 0
                 open == ip \in DOMAIN drain /\ drain[ip].active
             IN  IF /\ ip \in DOMAIN tokenBucket
                    /\ tokenBucket[ip].tokens = Num(0)
                    /\ (~open \/ now # tokenBucket[ip].lastRefill)
                 THEN MapSet(drain, ip,
                        [budget   |-> Min(ValOf(tierConfig.maxRequests) * 1000,
                                          (now - tokenBucket[ip].lastRefill)
                                              * RefillRateOf(tierConfig)),
                         admitted |-> a, start |-> now, advanced |-> FALSE,
                         active   |-> out.result.allowed])
                 ELSE IF open
                 THEN MapSet(drain, ip,
                        [drain[ip] EXCEPT !.admitted = @ + a,
                                          !.advanced = @ \/ now # drain[ip].start,
                                          !.active = out.result.allowed])
                 ELSE drain

\* ip -> time -> number of calls the sliding window admitted at that time
SwAdmittedAfter(ip, out) ==
    IF out.stage = "slidingWindow" /\ out.result.allowed
    THEN [swAdmitted EXCEPT ![ip][now] = @ + 1]
    ELSE swAdmitted

\* ip -> [open, n]: when the IP's current fixed window opened and how many of
\* its calls reached the fixed-window counter since
FwSeenAfter(ip, tier, out) ==
    LET tierConfig == ResolveTier(config, tier)[1]
    IN  IF out.stage # "fixedWindow" THEN fwSeen
        ELSE IF \/ ip \notin DOMAIN fwSeen
                \/ JsGe(Num(now - fwSeen[ip].open), tierConfig.windowMs)
        THEN MapSet(fwSeen, ip, [open |-> now, n |-> 1])
        ELSE MapSet(fwSeen, ip, [fwSeen[ip] EXCEPT !.n = @ + 1])

\* [open, n]: when the current global window opened (NaN before the first
\* call) and how many calls were answered allowed = true in it
GwAllowedAfter(out) ==
    LET a == IF out.result.allowed THEN 1 ELSE 0
    IN  IF \/ ~IsNum(gwAllowed.open)
           \/ now - ValOf(gwAllowed.open) >= config.globalLimit.windowMs
        THEN [open |-> Num(now), n |-> a]
        ELSE [gwAllowed EXCEPT !.n = @ + a]

----------------------------------------------------------------------------
(* The state machine *)

Init ==
    /\ TotpIdle
    /\ GatewayIdle
    /\ NoDeviceRegistry
    /\ AuthIdle
    /\ config \in Configs
    /\ now = 0
    /\ tokenBucket = <<>>
    /\ slidingWindow = <<>>
    /\ fixedWindow = <<>>
    /\ globalWindow = <<>>
    /\ rateLimitHits = 0
    /\ last = [ip |-> "", tierConfig |-> <<>>, stage |-> "init",
               result |-> [allowed |-> TRUE, remaining |-> 0,
                           resetMs |-> NaN, limit |-> NaN]]
    /\ calls = 0
    /\ rejected = 0
    /\ tbSeen = <<>>
    /\ drain = <<>>
    /\ swAdmitted = [ip \in IPs |-> [t \in Times |-> 0]]
    /\ fwSeen = <<>>
    /\ gwAllowed = [open |-> NaN, n |-> 0]

\* the limiter as constructed, under one fixed configuration
LimiterIdle ==
    /\ config = CeilingConfig
    /\ now = 0
    /\ tokenBucket = <<>>
    /\ slidingWindow = <<>>
    /\ fixedWindow = <<>>
    /\ globalWindow = <<>>
    /\ rateLimitHits = 0
    /\ last = [ip |-> "", tierConfig |-> <<>>, stage |-> "init",
               result |-> [allowed |-> TRUE, remaining |-> 0,
                           resetMs |-> NaN, limit |-> NaN]]
    /\ calls = 0
    /\ rejected = 0
    /\ tbSeen = <<>>
    /\ drain = <<>>
    /\ swAdmitted = [ip \in IPs |-> [t \in Times |-> 0]]
    /\ fwSeen = <<>>
    /\ gwAllowed = [open |-> NaN, n |-> 0]

\* RateLimiterService.checkLimit(ip, tier)
checkLimit(ip, tier) ==
    /\ calls < MaxCalls
    /\ LET out == CheckLimitOutcome(ip, tier)
       IN  /\ globalWindow' = out.globalWindow
           /\ tokenBucket' = out.tokenBucket
           /\ slidingWindow' = out.slidingWindow
           /\ fixedWindow' = out.fixedWindow
           /\ rateLimitHits' = out.hits
           /\ last' = [ip |-> ip, tierConfig |-> ResolveTier(config, tier), stage |-> out.stage,
                       result |-> out.result]
           /\ calls' = calls + 1
           /\ rejected' = IF out.result.allowed THEN rejected ELSE rejected + 1
           /\ tbSeen' = TbSeenAfter(ip, out)
           /\ drain' = DrainAfter(ip, tier, out)
           /\ swAdmitted' = SwAdmittedAfter(ip, out)
           /\ fwSeen' = FwSeenAfter(ip, tier, out)
           /\ gwAllowed' = GwAllowedAfter(out)
    /\ UNCHANGED <<config, now>>

\* time passes: Date.now() returns a later value
Tick ==
    /\ \E d \in ClockSteps : now + d <= TimeLimit /\ now' = now + d
    /\ UNCHANGED <<limiterVars, totpVars, deviceVars, authVars, gatewayVars>>

\* the wall clock is set back: Date.now() returns an earlier value
ClockBack ==
    /\ \E t \in Times : t < now /\ now' = t
    /\ UNCHANGED <<limiterVars, totpVars, deviceVars, authVars, gatewayVars>>

Call ==
    /\ \E ip \in IPs, tier \in RequestTiers : checkLimit(ip, tier)
    /\ UNCHANGED <<totpVars, deviceVars, authVars, gatewayVars>>

Next == Call \/ Tick

Spec == Init /\ [][Next]_vars

NextWall == Call \/ Tick \/ ClockBack

\* the token-bucket configurations under a wall clock that may be set back
InitWall == Init /\ config \in BucketConfigs

SpecWall == InitWall /\ [][NextWall]_vars

\* two tiers that use one algorithm, the second with the larger capacity
SharedConfigs ==
    {[tiers |-> [free |-> small, pro |-> large],
      defaultTier |-> "free",
      globalLimit |-> GlobalLimit(100)] :
        <<small, large>> \in {<<BucketTier(1, Num(1)), BucketTier(MaxCap, Num(1))>>,
                              <<SlidingTier(1), SlidingTier(MaxCap)>>,
                              <<FixedTier(1), FixedTier(MaxCap)>>}}

InitShared ==
    /\ TotpIdle
    /\ GatewayIdle
    /\ NoDeviceRegistry
    /\ AuthIdle
    /\ config \in SharedConfigs
    /\ now = 0
    /\ tokenBucket = <<>>
    /\ slidingWindow = <<>>
    /\ fixedWindow = <<>>
    /\ globalWindow = <<>>
    /\ rateLimitHits = 0
    /\ last = [ip |-> "", tierConfig |-> <<>>, stage |-> "init",
               result |-> [allowed |-> TRUE, remaining |-> 0,
                           resetMs |-> NaN, limit |-> NaN]]
    /\ calls = 0
    /\ rejected = 0
    /\ tbSeen = <<>>
    /\ drain = <<>>
    /\ swAdmitted = [ip \in IPs |-> [t \in Times |-> 0]]
    /\ fwSeen = <<>>
    /\ gwAllowed = [open |-> NaN, n |-> 0]

SpecShared == InitShared /\ [][Next]_vars

----------------------------------------------------------------------------
(* The rateLimiter middleware in front of the service *)

\* the rateLimiter middleware handles a request from ip whose tier the
\* authentication set, or left unset ("")
rateLimiterStage(ip, tier) ==
    /\ checkLimit(ip, TierOrFree(tier))
    /\ lastReq' = [NoReqYet EXCEPT !.ip = ip, !.tier = tier,
                                   !.ran = {"rateLimiter"},
                                   !.limited = <<rateLimiter(last'.result)>>]
    /\ UNCHANGED <<totpVars, deviceVars, authVars, ipRules, analytics, inflight,
                   responses, lastKey, logged, lastRead, streams, logVars>>

NextStage ==
    \/ \E tier \in RequestTiers \cup {""} : rateLimiterStage("10.0.0.1", tier)
    \/ Tick

\* a token bucket beside a sliding window, a token bucket beside an unlimited
\* tier, and the tiers that leave a field out
InitStage == Init /\ config \in {MixedConfig, CeilingConfig} \cup MalformedConfigs

SpecStage == InitStage /\ [][NextStage]_vars

----------------------------------------------------------------------------
(* The TOTP utilities as a state machine: a client generates a code, the     *)
(* clock runs, and the server validates what the client presents.            *)

HalfWindow == TIME_WINDOW_MS \div 2

TotpTimeLimit == MaxTicks * TIME_WINDOW_MS

\* the client calls generateTOTP(browserId, secret, timeOffset)
generateCode(browserId, secret, timeOffset) ==
    /\ totp' = [totp EXCEPT !.code = generateTOTP(browserId, secret, timeOffset, now),
                            !.browserId = browserId,
                            !.secret = secret,
                            !.window = WindowIndex(now) + timeOffset,
                            !.validated = FALSE]
    /\ UNCHANGED <<now, limiterVars, deviceVars, authVars, gatewayVars>>

\* the client holds a code that generateTOTP did not return
guessCode(code) ==
    /\ totp' = [totp EXCEPT !.code = code, !.browserId = <<>>, !.secret = "",
                            !.validated = FALSE]
    /\ UNCHANGED <<now, limiterVars, deviceVars, authVars, gatewayVars>>

\* the server calls validateTOTP(browserId, secret, totp.code)
validateCode(browserId, secret) ==
    /\ totp.code # ""
    /\ totp' = [totp EXCEPT !.validated = TRUE,
                            !.asBrowserId = browserId,
                            !.asSecret = secret,
                            !.valid = validateTOTP(browserId, secret, totp.code, now)]
    /\ UNCHANGED <<now, limiterVars, deviceVars, authVars, gatewayVars>>

\* half an hour passes
TickTotp ==
    /\ now + HalfWindow <= TotpTimeLimit
    /\ now' = now + HalfWindow
    /\ totp' = [totp EXCEPT !.validated = FALSE]
    /\ UNCHANGED <<limiterVars, deviceVars, authVars, gatewayVars>>

InitTotp ==
    /\ LimiterIdle
    /\ TotpIdle
    /\ GatewayIdle
    /\ NoDeviceRegistry
    /\ AuthIdle

NextTotp ==
    \/ \E b \in BrowserIds, s \in Secrets, o \in {0, -1} : generateCode(b, s, o)
    \/ \E c \in WrongCodes : guessCode(c)
    \/ \E b \in BrowserIds, s \in Secrets : validateCode(b, s)
    \/ TickTotp

SpecTotp == InitTotp /\ [][NextTotp]_vars

----------------------------------------------------------------------------
(* formatKey and parseKey over every short key *)

\* the segments a string may have between its underscores
Segments == {"", "totp", "0b5e-01", "c0de"}

\* the strings of up to n segments
Strings(n) == UNION {[1..k -> Segments] : k \in 1..n}

\* the codes a client may put into a key: none, and hex digits
Codes == {"", "c0de"}

\* the client calls formatKey(browserId, code) and the server parses the key
formatAndParse(browserId, code) ==
    /\ totp' = [totp EXCEPT !.key = formatKey(browserId, code),
                            !.formatted = <<[browserId |-> browserId, code |-> code]>>,
                            !.parsed = parseKey(formatKey(browserId, code))]
    /\ UNCHANGED <<now, limiterVars, deviceVars, authVars, gatewayVars>>

\* the server parses a key that formatKey did not make
parseGiven(key) ==
    /\ totp' = [totp EXCEPT !.key = key, !.formatted = <<>>, !.parsed = parseKey(key)]
    /\ UNCHANGED <<now, limiterVars, deviceVars, authVars, gatewayVars>>

NextParse ==
    \/ \E b \in Strings(MaxSegments - 1), c \in Codes : formatAndParse(b, c)
    \/ \E key \in Strings(MaxSegments) : parseGiven(key)

SpecParse == InitTotp /\ [][NextParse]_vars


----------------------------------------------------------------------------
(* The device registry and the authentication middleware in front of it *)

\* a devices file with one entry that expired before the service started
StaleFile ==
    [id \in {<<"0b5e-01">>} |->
        [browserId |-> id, sharedSecret |-> "loaded1", ip |-> "10.0.0.1",
         expiresAt |-> toISOString(0), lastIp |-> "10.0.0.1", active |-> TRUE]]

\* new DeviceRegistryService(filePath) that has loaded the map loaded and
\* leaves the file onDisk after made calls of saveToDiskSync: loadFromDisk,
\* cleanupExpired, setInterval.  writeTimeout is the deadline of the armed
\* persistence timer.
DeviceRegistryLoaded(loaded, onDisk, made) ==
    LET swept == cleanupExpiredOutcome(loaded, <<>>, now)
    IN  /\ devices = swept.devices
        /\ writeTimeout = swept.writeTimeout
        /\ cleanupInterval = Num(now + CLEANUP_INTERVAL_MS)
        /\ registrationAttempts = <<>>
        /\ issued = 0
        /\ regs = 0
        /\ lastReg = NoRegYet
        /\ timers = setTimeout({}, <<>>, swept.writeTimeout)
        /\ file = onDisk
        /\ saves = made
        /\ thrown = ""
        /\ destroyed = FALSE

\* new DeviceRegistryService(filePath) over a file that holds the map loaded
\* (an absent file is created empty)
DeviceRegistryConstructed(loaded) ==
    DeviceRegistryLoaded(loaded, <<DevicesFile(loaded)>>, 0)

\* DeviceRegistryService.registerDevice(browserId, ip, userAgent)
registerDevice(browserId, ip) ==
    /\ LET out == registerDeviceOutcome(browserId, ip, now)
       IN  /\ devices' = out.devices
           /\ registrationAttempts' = out.registrationAttempts
           /\ writeTimeout' = out.writeTimeout
           /\ timersAfter(writeTimeout, out.writeTimeout)
           /\ issued' = out.issued
           /\ lastReg' = [browserId |-> browserId, ip |-> ip, result |-> out.result]
    /\ regs' = regs + 1
    /\ lastAuth' = NoAuthYet
    /\ UNCHANGED <<now, cleanupInterval, apiKeys, deviceRegistry, customTotpValidator,
                   limiterVars, totpVars, gatewayVars>>

\* DeviceRegistryService.revokeDevice(browserId)
revokeDevice(browserId) ==
    /\ LET out == revokeDeviceOutcome(devices, writeTimeout, browserId, now)
       IN  /\ devices' = out.devices
           /\ writeTimeout' = out.writeTimeout
           /\ timersAfter(writeTimeout, out.writeTimeout)
    /\ lastReg' = NoRegYet
    /\ lastAuth' = NoAuthYet
    /\ UNCHANGED <<now, registrationAttempts, cleanupInterval, issued, regs,
                   apiKeys, deviceRegistry, customTotpValidator, limiterVars, totpVars, gatewayVars>>

\* DeviceRegistryService.getDevice(browserId), as GET /status/:browserId calls it
getDevice(browserId) ==
    /\ LET got == getDeviceOutcome(devices, writeTimeout, browserId, now)
       IN  /\ devices' = got.devices
           /\ writeTimeout' = got.writeTimeout
           /\ timersAfter(writeTimeout, got.writeTimeout)
    /\ lastReg' = NoRegYet
    /\ lastAuth' = NoAuthYet
    /\ UNCHANGED <<now, registrationAttempts, cleanupInterval, issued, regs,
                   apiKeys, deviceRegistry, customTotpValidator, limiterVars, totpVars, gatewayVars>>

\* the hourly timer fires: cleanupExpired()
cleanupExpired ==
    /\ cleanupInterval # <<>>
    /\ now >= ValOf(cleanupInterval)
    /\ LET swept == cleanupExpiredOutcome(devices, writeTimeout, now)
       IN  /\ devices' = swept.devices
           /\ writeTimeout' = swept.writeTimeout
           /\ timersAfter(writeTimeout, swept.writeTimeout)
    /\ cleanupInterval' = Num(now + CLEANUP_INTERVAL_MS)
    /\ lastReg' = NoRegYet
    /\ lastAuth' = NoAuthYet
    /\ UNCHANGED <<now, registrationAttempts, issued, regs,
                   apiKeys, deviceRegistry, customTotpValidator, limiterVars, totpVars, gatewayVars>>

\* the keys a client may present: none, a TOTP key made now with a secret the
\* registry has issued, a TOTP key with a code no HMAC produced, a TOTP key
\* without a code, the key of a session, and a static key
PresentedKeys ==
    {<<>>, <<"totp", "0b5e-01">>, SessionKey, <<"gw", "live", "0a">>}
    \cup {formatKey(b, generateTOTP(b, generateSecret(n), 0, now)) :
            b \in BrowserIds, n \in 1..issued}
    \cup {formatKey(b, "00") : b \in RegisteringIds}

\* the apiKeyAuth middleware handles a request from ip that presents apiKey
apiKeyAuth(ip, apiKey) ==
    /\ LET out == apiKeyAuthOutcome(devices, writeTimeout, ip, apiKey, now)
       IN  /\ devices' = out.devices
           /\ writeTimeout' = out.writeTimeout
           /\ timersAfter(writeTimeout, out.writeTimeout)
           /\ lastAuth' = [apiKey |-> apiKey, calls |-> 1,
                           next |-> out.next, status |-> out.status,
                           error |-> out.error, clientId |-> out.clientId,
                           tier |-> out.tier, apiKeyValue |-> out.apiKeyValue]
    /\ lastReg' = NoRegYet
    /\ UNCHANGED <<now, registrationAttempts, cleanupInterval, issued, regs,
                   apiKeys, deviceRegistry, customTotpValidator, limiterVars, totpVars, gatewayVars>>

\* an hour or a week passes
TickDevice ==
    /\ \E d \in {CLEANUP_INTERVAL_MS, ONE_WEEK_MS} :
        /\ (now + d) % ONE_WEEK_MS <= MaxHours * CLEANUP_INTERVAL_MS
        /\ (now + d) \div ONE_WEEK_MS <= 1
        /\ now' = now + d
    /\ lastReg' = NoRegYet
    /\ lastAuth' = NoAuthYet
    /\ UNCHANGED <<devices, registrationAttempts, writeTimeout, cleanupInterval,
                   timers, file, saves, thrown, destroyed,
                   issued, regs, apiKeys, deviceRegistry, customTotpValidator,
                   limiterVars, totpVars, gatewayVars>>

InitDevice ==
    /\ LimiterIdle
    /\ TotpIdle
    /\ GatewayIdle
    /\ \E loaded \in {<<>>, StaleFile} :
        /\ DeviceRegistryConstructed(loaded)
        /\ customTotpValidator \in (IF loaded = <<>> THEN BOOLEAN ELSE {FALSE})
    /\ apiKeys = <<>>
    /\ deviceRegistry = TRUE
    /\ lastAuth = NoAuthYet

\* the other address registers only a browserId that the map holds
NextDevice ==
    \/ regs < MaxRegs /\ \E b \in RegisteringIds, ip \in IPs :
        /\ ip = "10.0.0.2" => b \in DOMAIN devices
        /\ registerDevice(b, ip)
    \/ \E b \in BrowserIds : revokeDevice(b)
    \/ \E b \in BrowserIds : getDevice(b)
    \/ \E apiKey \in PresentedKeys : apiKeyAuth("10.0.0.2", apiKey)
    \/ cleanupExpired
    \/ TickDevice

SpecDevice == InitDevice /\ [][NextDevice]_vars

\* the registry alone: the calls of the routes and the hourly sweep
NextRevoke ==
    \/ regs < MaxRegs /\ \E b \in RegisteringIds, ip \in IPs : registerDevice(b, ip)
    \/ \E b \in BrowserIds : revokeDevice(b)
    \/ \E b \in BrowserIds : getDevice(b)
    \/ cleanupExpired
    \/ TickDevice

SpecRevoke == InitDevice /\ [][NextRevoke]_vars

\* the TOTP keys of a device that holds a secret the registry has generated,
\* the current one or an earlier one
IssuedKeys ==
    {formatKey(b, generateTOTP(b, generateSecret(n), 0, now)) :
        b \in RegisteringIds, n \in 1..issued}

\* a device registers, is revoked, registers anew and presents its keys to a
\* gateway that has no validateTOTP function
NextRevoked ==
    \/ regs < MaxRegs /\ \E b \in RegisteringIds : registerDevice(b, "10.0.0.1")
    \/ \E b \in RegisteringIds : revokeDevice(b)
    \/ \E apiKey \in IssuedKeys : apiKeyAuth("10.0.0.1", apiKey)
    \/ cleanupExpired
    \/ TickDevice

InitRevoked == InitDevice /\ ~customTotpValidator

SpecRevoked == InitRevoked /\ [][NextRevoked]_vars

\* the requests of the clients of one address: they register, are revoked,
\* expire and present keys of every kind
NextPresented ==
    \/ regs < MaxRegs /\ \E b \in RegisteringIds : registerDevice(b, "10.0.0.1")
    \/ \E b \in BrowserIds : revokeDevice(b)
    \/ \E apiKey \in PresentedKeys : apiKeyAuth("10.0.0.2", apiKey)
    \/ cleanupExpired
    \/ TickDevice

SpecPresented == InitDevice /\ [][NextPresented]_vars


----------------------------------------------------------------------------
(* The device registry under a burst of registrations *)

\* a devices file in which one address holds MAX_REGISTRATIONS_PER_IP_TOTAL
\* live entries
FullFile ==
    [id \in {<<"f011-" \o ToString(i)>> : i \in 1..MAX_REGISTRATIONS_PER_IP_TOTAL} |->
        [browserId |-> id, sharedSecret |-> "loaded-" \o id[1], ip |-> "10.0.0.1",
         expiresAt |-> toISOString(ONE_WEEK_MS), lastIp |-> "10.0.0.1",
         active |-> TRUE]]

\* the registerDevice calls of a burst: two more than one rate window admits
BurstCalls == MAX_REGISTRATIONS_PER_IP_PER_MIN + MaxRegs

\* the clock of a burst moves by half rate windows, over two rate windows
BurstTimeLimit == 2 * RATE_WINDOW_MS

\* half a rate window passes
TickBurst ==
    /\ now + RATE_WINDOW_MS \div 2 <= BurstTimeLimit
    /\ now' = now + RATE_WINDOW_MS \div 2
    /\ lastReg' = NoRegYet
    /\ lastAuth' = NoAuthYet
    /\ UNCHANGED <<devices, registrationAttempts, writeTimeout, cleanupInterval,
                   timers, file, saves, thrown, destroyed,
                   issued, regs, apiKeys, deviceRegistry, customTotpValidator,
                   limiterVars, totpVars, gatewayVars>>

InitBurst ==
    /\ LimiterIdle
    /\ TotpIdle
    /\ GatewayIdle
    /\ \E loaded \in {<<>>, FullFile} : DeviceRegistryConstructed(loaded)
    /\ customTotpValidator = FALSE
    /\ apiKeys = <<>>
    /\ deviceRegistry = TRUE
    /\ lastAuth = NoAuthYet

NextBurst ==
    \/ regs < BurstCalls /\ \E b \in RegisteringIds, ip \in IPs : registerDevice(b, ip)
    \/ TickBurst

SpecBurst == InitBurst /\ [][NextBurst]_vars

----------------------------------------------------------------------------
(* The device registry filled from empty by one address that registers as   *)
(* fast as the velocity limit lets it                                        *)

\* the n-th browserId the address sends
CapId(n) == <<"ca9-" \o ToString(n)>>

\* the registerDevice calls of the scenario: enough to fill the cap, to use
\* up one more rate window at the cap, and MaxRegs more.  The address sends a
\* new browserId with each call, and its first one again once it holds, or
\* is one short of, as many devices as it may.  The other address registers
\* before it.
CapCalls ==
    MAX_REGISTRATIONS_PER_IP_TOTAL + MAX_REGISTRATIONS_PER_IP_PER_MIN + MaxRegs

\* a minute passes once the address has used up its rate window; a week
\* passes once the address holds as many devices as it may
TickCap ==
    /\ now < ONE_WEEK_MS
    /\ \/ /\ Len(recentAttempts(registrationAttempts, "10.0.0.1", now))
                >= MAX_REGISTRATIONS_PER_IP_PER_MIN
          /\ now' = now + RATE_WINDOW_MS
       \/ /\ getActiveCountByIp(devices, "10.0.0.1", now)
                >= MAX_REGISTRATIONS_PER_IP_TOTAL
          /\ now' = now + ONE_WEEK_MS
    /\ lastReg' = NoRegYet
    /\ lastAuth' = NoAuthYet
    /\ UNCHANGED <<devices, registrationAttempts, writeTimeout, cleanupInterval,
                   timers, file, saves, thrown, destroyed,
                   issued, regs, apiKeys, deviceRegistry, customTotpValidator,
                   limiterVars, totpVars, gatewayVars>>

InitCap ==
    /\ LimiterIdle
    /\ TotpIdle
    /\ GatewayIdle
    /\ DeviceRegistryConstructed(<<>>)
    /\ customTotpValidator = FALSE
    /\ apiKeys = <<>>
    /\ deviceRegistry = TRUE
    /\ lastAuth = NoAuthYet

NextCap ==
    \/ regs < CapCalls /\ registerDevice(CapId(issued + 1), "10.0.0.1")
    \/ /\ issued = 0
       /\ \E browserId \in RegisteringIds : registerDevice(browserId, "10.0.0.2")
    \/ /\ regs < CapCalls
       /\ getActiveCountByIp(devices, "10.0.0.1", now) + 1
            >= MAX_REGISTRATIONS_PER_IP_TOTAL
       /\ registerDevice(CapId(1), "10.0.0.1")
    \/ revokeDevice(CapId(1))
    \/ getDevice(CapId(1))
    \/ cleanupExpired
    \/ TickCap

SpecCap == InitCap /\ [][NextCap]_vars

----------------------------------------------------------------------------
(* The device registry, its persistence timer and its devices file *)

\* a devices file with one entry that expires while the service runs
AgingFile ==
    [id \in {<<"0b5e-01">>} |->
        [browserId |-> id, sharedSecret |-> "loaded1", ip |-> "10.0.0.1",
         expiresAt |-> toISOString(DEBOUNCE_WRITE_MS), lastIp |-> "10.0.0.1",
         active |-> TRUE]]

\* the clock is read every half debounce period
PersistStep == DEBOUNCE_WRITE_MS \div 2

\* calls are made until this clock value
PersistTimeLimit == MaxTicks * PersistStep

\* the service takes calls: destroy() has not been called and no exception
\* has ended the process
Running == ~destroyed /\ thrown = "" /\ now <= PersistTimeLimit

\* saveToDiskSync(): fs.writeFileSync writes the devices array, or throws and
\* leaves the file as it is
saveToDiskSync(ok) ==
    /\ file' = IF ok THEN <<DevicesFile(devices)>> ELSE file
    /\ saves' = saves + 1

\* DeviceRegistryService.updateLastSeen(browserId, ip)
updateLastSeen(browserId, ip) ==
    /\ LET seen == updateLastSeenOutcome(devices, writeTimeout, browserId, ip, now)
       IN  /\ devices' = seen.devices
           /\ writeTimeout' = seen.writeTimeout
           /\ timersAfter(writeTimeout, seen.writeTimeout)
    /\ lastReg' = NoRegYet
    /\ lastAuth' = NoAuthYet
    /\ UNCHANGED <<now, registrationAttempts, cleanupInterval, issued, regs,
                   apiKeys, deviceRegistry, customTotpValidator, limiterVars, totpVars, gatewayVars>>

\* a persistence timer fires: () => { this.saveToDiskSync() }.  Nothing
\* catches what the write throws in the timer callback, and the handle in
\* writeTimeout stays.
writeTimeoutFires(ok) ==
    /\ thrown = ""
    /\ \E deadline \in timers :
        /\ now >= deadline
        /\ timers' = timers \ {deadline}
    /\ saveToDiskSync(ok)
    /\ thrown' = IF ok THEN thrown ELSE "setTimeout"
    /\ lastReg' = NoRegYet
    /\ lastAuth' = NoAuthYet
    /\ UNCHANGED <<now, devices, registrationAttempts, writeTimeout, cleanupInterval,
                   issued, regs, destroyed,
                   apiKeys, deviceRegistry, customTotpValidator, limiterVars, totpVars, gatewayVars>>

\* DeviceRegistryService.destroy(): clearInterval, and, if writeTimeout is
\* set, clearTimeout and saveToDiskSync.  cleanupInterval becomes <<>>: the
\* interval no longer fires.  What the write throws leaves destroy().
destroy(ok) ==
    /\ Running
    /\ cleanupInterval' = <<>>
    /\ IF writeTimeout # <<>>
       THEN /\ timers' = clearTimeout(timers, writeTimeout)
            /\ saveToDiskSync(ok)
            /\ thrown' = IF ok THEN thrown ELSE "destroy"
       ELSE UNCHANGED <<timers, file, saves, thrown>>
    /\ destroyed' = TRUE
    /\ lastReg' = NoRegYet
    /\ lastAuth' = NoAuthYet
    /\ UNCHANGED <<now, devices, registrationAttempts, writeTimeout,
                   issued, regs,
                   apiKeys, deviceRegistry, customTotpValidator, limiterVars, totpVars, gatewayVars>>

\* half a debounce period passes, or the first hour; a timer fires when its
\* deadline comes, before the clock is read again
TickPersist ==
    /\ thrown = ""
    /\ \E d \in {PersistStep, CLEANUP_INTERVAL_MS} :
        /\ \A deadline \in timers : now + d <= deadline
        /\ cleanupInterval # <<>> => now + d <= ValOf(cleanupInterval)
        /\ d = CLEANUP_INTERVAL_MS => now = 0
        /\ now < PersistTimeLimit \/ (timers # {} /\ d = PersistStep)
        /\ now' = now + d
    /\ lastReg' = NoRegYet
    /\ lastAuth' = NoAuthYet
    /\ UNCHANGED <<devices, registrationAttempts, writeTimeout, cleanupInterval,
                   timers, file, saves, thrown, destroyed,
                   issued, regs, apiKeys, deviceRegistry, customTotpValidator,
                   limiterVars, totpVars, gatewayVars>>

\* the service starts over an absent file, which it creates, or over a file
\* with an entry
InitPersist ==
    /\ LimiterIdle
    /\ TotpIdle
    /\ GatewayIdle
    /\ \/ DeviceRegistryLoaded(<<>>, <<DevicesFile(<<>>)>>, 1)
       \/ \E loaded \in {StaleFile, AgingFile} : DeviceRegistryConstructed(loaded)
    /\ customTotpValidator = FALSE
    /\ apiKeys = <<>>
    /\ deviceRegistry = TRUE
    /\ lastAuth = NoAuthYet

\* the calls the registry takes and the timers that fire, over a disk whose
\* writes succeed or not as answers says
NextRegistry(answers) ==
    \/ /\ Running
       /\ regs < MaxRegs
       /\ \E b \in RegisteringIds : registerDevice(b, "10.0.0.1")
    \/ Running /\ \E b \in RegisteringIds : revokeDevice(b)
    \/ Running /\ \E b \in RegisteringIds : getDevice(b)
    \/ Running /\ \E b \in RegisteringIds, ip \in IPs : updateLastSeen(b, ip)
    \/ thrown = "" /\ cleanupExpired
    \/ \E ok \in answers : writeTimeoutFires(ok)
    \/ \E ok \in answers : destroy(ok)
    \/ TickPersist

NextPersist == NextRegistry({TRUE})

SpecPersist == InitPersist /\ [][NextPersist]_vars

\* the same service over a disk whose writes may fail: the write that creates
\* an absent file may fail too, which loadFromDisk catches
InitDiskFails ==
    /\ LimiterIdle
    /\ TotpIdle
    /\ GatewayIdle
    /\ \/ \E onDisk \in {<<>>, <<DevicesFile(<<>>)>>} : DeviceRegistryLoaded(<<>>, onDisk, 1)
       \/ \E loaded \in {StaleFile, AgingFile} : DeviceRegistryConstructed(loaded)
    /\ customTotpValidator = FALSE
    /\ apiKeys = <<>>
    /\ deviceRegistry = TRUE
    /\ lastAuth = NoAuthYet

NextDiskFails == NextRegistry(BOOLEAN)

SpecDiskFails == InitDiskFails /\ [][NextDiskFails]_vars

\* the timers fire and the clock goes on
SpecPersistLive ==
    /\ SpecPersist
    /\ WF_vars(writeTimeoutFires(TRUE))
    /\ WF_vars(TickPersist)

----------------------------------------------------------------------------
(* The gateway: requests pass the pipeline, responses finish, keys are      *)
(* created and revoked                                                        *)

\* the API keys a client may present: none, an unknown one, the configured
\* ones and the ones POST /keys has handed out
GatewayKeys ==
    {<<>>, <<"gw", "live", "ff">>, <<"gw", "live", "0a">>}
    \cup {apiKeys[i].key : i \in 1..Len(apiKeys)}

\* the status codes of the routes behind the pipeline
HandlerStatuses == {200}

\* The router handles a request from ip that presents apiKey: the stages run
\* in the order of Stages, each one only if every stage before it called
\* next(); handlerStatus is the answer of the route behind the pipeline.
request(ip, apiKey, handlerStatus) ==
    LET id == Len(responses) + 1
        auth == apiKeyAuthOutcome(devices, writeTimeout, ip, apiKey, now)
        tier == TierOrFree(IF StageIndex("apiKeyAuth") < StageIndex("rateLimiter")
                           THEN auth.tier ELSE "")
        decision(stage) ==
            CASE stage = "requestLogger" -> Passed
              [] stage = "apiKeyAuth" ->
                    [next |-> auth.next, status |-> auth.status, error |-> auth.error]
              [] stage = "ipFilter" -> ipFilter(ipRules, ip)
              [] stage = "rateLimiter" -> rateLimiter(CheckLimitOutcome(ip, tier).result)
        Runs(i) == \A j \in 1..(i - 1) : decision(Stages[j]).next
        ran == {Stages[i] : i \in {k \in 1..Len(Stages) : Runs(k)}}
        answering == {i \in 1..Len(Stages) : Runs(i) /\ decision(Stages[i]).status # 0}
        first == CHOOSE i \in answering : \A j \in answering : i <= j
        statusCode == IF answering = {} THEN handlerStatus
                      ELSE decision(Stages[first]).status
        error == IF answering = {} THEN "" ELSE decision(Stages[first]).error
        identified == "apiKeyAuth" \in ran /\ auth.next
        pending == [statusCode |-> statusCode,
                    clientId |-> IF identified THEN auth.clientId ELSE "",
                    ip |-> ip,
                    apiKeyValue |-> IF identified THEN auth.apiKeyValue ELSE <<>>,
                    hooked |-> "requestLogger" \in ran]
    IN  /\ IF "rateLimiter" \in ran
           THEN checkLimit(ip, tier)
           ELSE UNCHANGED limiterVars
        /\ devices' = IF "apiKeyAuth" \in ran THEN auth.devices ELSE devices
        /\ writeTimeout' = IF "apiKeyAuth" \in ran THEN auth.writeTimeout ELSE writeTimeout
        /\ timersAfter(writeTimeout,
                       IF "apiKeyAuth" \in ran THEN auth.writeTimeout ELSE writeTimeout)
        /\ inflight' = MapSet(inflight, id, pending)
        /\ responses' = Append(responses, statusCode)
        /\ lastReq' = [id |-> id, ip |-> ip, apiKey |-> apiKey, ran |-> ran,
                       hooked |-> pending.hooked, auth |-> decision("apiKeyAuth"),
                       statusCode |-> statusCode, error |-> error,
                       clientId |-> pending.clientId,
                       tier |-> IF identified THEN auth.tier ELSE "",
                       apiKeyValue |-> pending.apiKeyValue,
                       filtered |-> IF "ipFilter" \in ran
                                    THEN <<decision("ipFilter")>> ELSE <<>>,
                       limited |-> IF "rateLimiter" \in ran
                                   THEN <<decision("rateLimiter")>> ELSE <<>>]
        /\ lastKey' = NoKeyYet
        /\ UNCHANGED <<now, registrationAttempts, cleanupInterval, issued, regs, lastReg,
                       totpVars, authVars, ipRules, analytics, logged, lastRead, streams, logVars>>

\* the response to request id has been handed to the network: 'finish' fires
finish(id) ==
    /\ id \in DOMAIN inflight
    /\ analytics' = IF inflight[id].hooked
                    THEN addLog(analytics, RequestLog(id, inflight[id], now))
                    ELSE analytics
    /\ logged' = IF inflight[id].hooked THEN logged + 1 ELSE logged
    /\ inflight' = MapDelete(inflight, {id})
    /\ lastReq' = NoReqYet
    /\ lastKey' = NoKeyYet
    /\ UNCHANGED <<now, limiterVars, totpVars, deviceVars, authVars, ipRules, responses,
                   lastRead, streams, logVars>>

\* POST /keys with the body { name, tier }
createKey(name, tier) ==
    /\ IF name = ""
       THEN /\ lastKey' = [op |-> "create", keyId |-> "", status |-> 400]
            /\ UNCHANGED apiKeys
       ELSE LET added == newKey(Len(apiKeys), tier)
            IN  /\ apiKeys' = Append(apiKeys, added)
                /\ lastKey' = [op |-> "create", keyId |-> added.id, status |-> 201]
    /\ lastReq' = NoReqYet
    /\ UNCHANGED <<now, limiterVars, totpVars, deviceVars, deviceRegistry,
                   customTotpValidator, lastAuth, ipRules, analytics, inflight, responses,
                   logged, lastRead, streams, logVars>>

\* DELETE /keys/:keyId
revokeKey(keyId) ==
    /\ LET at == findById(apiKeys, keyId)
       IN  IF at = 0
           THEN /\ lastKey' = [op |-> "revoke", keyId |-> keyId, status |-> 404]
                /\ UNCHANGED apiKeys
           ELSE /\ apiKeys' = [apiKeys EXCEPT ![at] = deactivated(@)]
                /\ lastKey' = [op |-> "revoke", keyId |-> keyId, status |-> 200]
    /\ lastReq' = NoReqYet
    /\ UNCHANGED <<now, limiterVars, totpVars, deviceVars, deviceRegistry,
                   customTotpValidator, lastAuth, ipRules, analytics, inflight, responses,
                   logged, lastRead, streams, logVars>>

\* the ids DELETE /keys/:keyId is called with
KeyIds == {"key_001", "key_002"}

\* the bodies POST /keys is called with
KeyBodies ==
    {[name |-> "", tier |-> ""], [name |-> "ci", tier |-> ""],
     [name |-> "ci", tier |-> "unlimited"]}

\* a second passes
TickGateway ==
    /\ now + 1000 <= TimeLimit
    /\ now' = now + 1000
    /\ lastReq' = NoReqYet
    /\ lastKey' = NoKeyYet
    /\ UNCHANGED <<limiterVars, totpVars, deviceVars, authVars, ipRules, analytics,
                   inflight, responses, logged, lastRead, streams, logVars>>

\* createGatewayMiddleware(userConfig) without a devices file and without a
\* validateTOTP function, over the key list keys and the rules rules
GatewayConstructed(keys, rules) ==
    /\ LimiterIdle
    /\ TotpIdle
    /\ NoDeviceRegistry
    /\ apiKeys = keys
    /\ deviceRegistry = FALSE
    /\ customTotpValidator = FALSE
    /\ lastAuth = NoAuthYet
    /\ ipRules = rules
    /\ analytics = NoLogs
    /\ inflight = <<>>
    /\ responses = <<>>
    /\ lastReq = NoReqYet
    /\ lastKey = NoKeyYet
    /\ logged = 0
    /\ lastRead = NoReadYet
    /\ streams = <<>>
    /\ NoFileLogWriter

InitGateway ==
    \E rules \in RuleSets :
        GatewayConstructed(<<Credential("key_001", <<"gw", "live", "0a">>, "unlimited", TRUE)>>,
                           rules)

InitKeys == \E keys \in ConfiguredKeys : GatewayConstructed(keys, DEFAULT_IP_RULES)

\* requests arrive, responses finish, time passes
NextGateway ==
    \/ /\ Len(responses) < MaxRequests
       /\ \E ip \in IPs, apiKey \in GatewayKeys, handlerStatus \in HandlerStatuses :
            request(ip, apiKey, handlerStatus)
    \/ \E id \in DOMAIN inflight : finish(id)
    \/ TickGateway

SpecGateway == InitGateway /\ [][NextGateway]_vars

\* the gateway over rules that block one of the two addresses
InitGatewayLive ==
    GatewayConstructed(<<Credential("key_001", <<"gw", "live", "0a">>, "unlimited", TRUE)>>,
                       IpRules("blocklist", {}, {"10.0.0.2"}))

\* a response that has been written is handed to the network in the end: the
\* 'finish' event of each pending response fires
SpecGatewayLive ==
    /\ InitGatewayLive
    /\ [][NextGateway]_vars
    /\ \A id \in 1..MaxRequests : WF_vars(finish(id))

\* requests arrive from one address while keys are created and revoked
NextKeys ==
    \/ /\ Len(responses) < MaxRequests
       /\ \E apiKey \in GatewayKeys, handlerStatus \in HandlerStatuses :
            request("10.0.0.1", apiKey, handlerStatus)
    \/ /\ Len(apiKeys) < MaxKeys
       /\ \E body \in KeyBodies : createKey(body.name, body.tier)
    \/ \E keyId \in KeyIds : revokeKey(keyId)

SpecKeys == InitKeys /\ [][NextKeys]_vars

\* key lists of a userConfig whose ids are not the positions of the entries:
\* one key that the operator has called key_002
NumberedKeys ==
    ConfiguredKeys
    \cup {<<Credential("key_002", <<"gw", "live", "0b">>, "free", TRUE)>>}

InitKeyIds == \E keys \in NumberedKeys : GatewayConstructed(keys, DEFAULT_IP_RULES)

\* keys are created and revoked over any of these lists
SpecKeyIds == InitKeyIds /\ [][NextKeys]_vars


----------------------------------------------------------------------------
(* The ipFilter middleware under every rule set over the addresses *)

\* the ipFilter middleware handles a request from ip
ipFilterStage(ip) ==
    /\ Len(responses) < MaxRequests
    /\ LET decision == ipFilter(ipRules, ip)
       IN  /\ lastReq' = [NoReqYet EXCEPT !.id = Len(responses) + 1, !.ip = ip,
                                          !.ran = {"ipFilter"},
                                          !.statusCode = decision.status,
                                          !.error = decision.error,
                                          !.filtered = <<decision>>]
           /\ responses' = Append(responses, decision.status)
    /\ UNCHANGED <<now, limiterVars, totpVars, deviceVars, authVars, ipRules,
                   analytics, inflight, lastKey, logged, lastRead, streams, logVars>>

\* createGatewayMiddleware({ ipRules }) with any mode and any lists over the
\* addresses
InitFilter ==
    \E mode \in {"allowlist", "blocklist"}, allowlist \in SUBSET IPs,
       blocklist \in SUBSET IPs :
        GatewayConstructed(<<>>, IpRules(mode, allowlist, blocklist))

NextFilter ==
    \/ \E ip \in IPs : ipFilterStage(ip)
    \/ Tick

SpecFilter == InitFilter /\ [][NextFilter]_vars

----------------------------------------------------------------------------
(* The analytics buffer filled up to and past its capacity *)

\* the addLog calls of a run
MaxLogs == 3

\* a response that the log hook records
Served == [statusCode |-> 200, clientId |-> "", ip |-> "10.0.0.1", apiKeyValue |-> <<>>]

\* the AnalyticsService after n addLog calls made at the clock value 0, for n
\* up to MAX_LOG_SIZE
Filled(n) ==
    [logs |-> [i \in 1..n |-> RequestLog(i, Served, 0)], head |-> 0, count |-> n]

\* the records the buffer holds when a run starts: none, or one less than
\* it has room for
Prefilled == {0, MAX_LOG_SIZE - 1}

\* the limit and offset of a GET /logs query
Limits == {-2, 2}
Offsets == {1, MAX_LOG_SIZE - 1}

\* a response finishes and its log hook calls addLog
logFinished ==
    /\ \E n \in Prefilled : n <= logged /\ logged < n + MaxLogs
    /\ analytics' = addLog(analytics, RequestLog(logged + 1, Served, now))
    /\ logged' = logged + 1
    /\ lastRead' = NoReadYet
    /\ UNCHANGED <<now, limiterVars, totpVars, deviceVars, authVars,
                   ipRules, inflight, responses, lastReq, lastKey, streams, logVars>>

\* GET /logs?limit=&offset=
readLogs(limit, offset) ==
    /\ lastRead' = [called |-> TRUE, limit |-> limit, offset |-> offset,
                    logs |-> getRecentLogs(analytics, limit, offset),
                    snapshot |-> <<>>]
    /\ UNCHANGED <<now, limiterVars, totpVars, deviceVars, authVars,
                   ipRules, analytics, inflight, responses, lastReq, lastKey, logged,
                   streams, logVars>>

\* a second passes
TickBuffer ==
    /\ now + 1000 <= TimeLimit
    /\ now' = now + 1000
    /\ lastRead' = NoReadYet
    /\ UNCHANGED <<limiterVars, totpVars, deviceVars, authVars, ipRules, analytics,
                   inflight, responses, lastReq, lastKey, logged, streams, logVars>>

\* the buffer is new, or one record short of full
InitBuffer ==
    /\ LimiterIdle
    /\ TotpIdle
    /\ NoDeviceRegistry
    /\ AuthIdle
    /\ ipRules = DEFAULT_IP_RULES
    /\ \E n \in Prefilled :
        /\ analytics = Filled(n)
        /\ logged = n
    /\ inflight = <<>>
    /\ responses = <<>>
    /\ lastReq = NoReqYet
    /\ lastKey = NoKeyYet
    /\ lastRead = NoReadYet
    /\ streams = <<>>
    /\ NoFileLogWriter

NextBuffer ==
    \/ logFinished
    \/ \E limit \in Limits, offset \in Offsets : readLogs(limit, offset)
    \/ TickBuffer

SpecBuffer == InitBuffer /\ [][NextBuffer]_vars

----------------------------------------------------------------------------
(* The analytics snapshot over buffers of a few records *)

\* the records a caller adds: status code, path, response time
LogKinds == {<<200, "/api/a", 100>>, <<500, "/api/f", 200>>, <<404, "/api/d", 101>>}

\* the path of the i-th record of a buffer that holds five endpoints, three of
\* them seldom requested
EndpointOf(i) ==
    IF i \in {3, 4} THEN "/api/c"
    ELSE IF i = 5 THEN "/api/d"
    ELSE IF i = 6 THEN "/api/e"
    ELSE IF i % 2 = 0 THEN "/api/a"
    ELSE "/api/b"

\* the AnalyticsService after n addLog calls made at the clock value 0, every
\* fourth one for a response with status 500
Recorded(n) ==
    [logs |-> [i \in 1..n |->
                makeLog(IF i % 4 = 0 THEN 500 ELSE 200, EndpointOf(i), 100, 0)],
     head |-> 0, count |-> n]

\* the records the buffer holds when a run starts: none, or requests to five
\* endpoints
Requested == {0, 6}

\* a caller adds a record
addMade(kind) ==
    /\ \E n \in Requested : n <= logged /\ logged < n + MaxLogs
    /\ analytics' = addLog(analytics, makeLog(kind[1], kind[2], kind[3], now))
    /\ logged' = logged + 1
    /\ lastRead' = NoReadYet
    /\ UNCHANGED <<now, limiterVars, totpVars, deviceVars, authVars,
                   ipRules, inflight, responses, lastReq, lastKey, streams, logVars>>

\* GET /analytics
readAnalytics ==
    /\ lastRead' = [NoReadYet EXCEPT !.called = TRUE,
                        !.snapshot = <<getAnalytics(analytics, rateLimitHits)>>]
    /\ UNCHANGED <<now, limiterVars, totpVars, deviceVars, authVars,
                   ipRules, analytics, inflight, responses, lastReq, lastKey, logged,
                   streams, logVars>>

\* the buffer is new, or holds requests to five endpoints
InitAnalytics ==
    /\ LimiterIdle
    /\ TotpIdle
    /\ NoDeviceRegistry
    /\ AuthIdle
    /\ ipRules = DEFAULT_IP_RULES
    /\ \E n \in Requested :
        /\ analytics = Recorded(n)
        /\ logged = n
    /\ inflight = <<>>
    /\ responses = <<>>
    /\ lastReq = NoReqYet
    /\ lastKey = NoKeyYet
    /\ lastRead = NoReadYet
    /\ streams = <<>>
    /\ NoFileLogWriter

NextAnalytics ==
    \/ \E kind \in LogKinds : addMade(kind)
    \/ readAnalytics

SpecAnalytics == InitAnalytics /\ [][NextAnalytics]_vars


----------------------------------------------------------------------------
(* The live analytics stream: GET /analytics/live *)

\* setInterval(send, 5000)
LIVE_INTERVAL_MS == 5000

\* the clock is read every half interval
LiveStep == LIVE_INTERVAL_MS \div 2

LiveTimeLimit == MaxTicks * LiveStep

\* the connections that may subscribe
Subscribers == 1..MaxRequests

\* send(): the snapshot getAnalytics gives at the clock value t is written
\* to the response of subscriber id
send(subs, id, t) ==
    [subs EXCEPT ![id].events =
        Append(@, [at |-> t, totalRequests |-> totalRequests(analytics)])]

\* a 'close' handler that leaves the interval running
clearIntervalNot(subs, id) == [subs EXCEPT ![id].open = FALSE]

\* _req.on('close', () => clearInterval(interval))
clearInterval(subs, id) == [subs EXCEPT ![id].interval = <<>>, ![id].open = FALSE]

\* a client subscribes: send() at once, then setInterval(send, 5000)
subscribe(id) ==
    /\ id \notin DOMAIN streams
    /\ now < LiveTimeLimit
    /\ streams' = send(MapSet(streams, id,
                              [since |-> now, open |-> TRUE, events |-> <<>>,
                               interval |-> Num(now + LIVE_INTERVAL_MS)]),
                       id, now)
    /\ UNCHANGED <<now, limiterVars, totpVars, deviceVars, authVars, ipRules,
                   analytics, inflight, responses, lastReq, lastKey, logged, lastRead,
                   logVars>>

\* the interval of subscriber id fires: send(), and the next firing is due
\* 5000 ms after this one was
intervalFires(id) ==
    /\ id \in DOMAIN streams
    /\ streams[id].interval # <<>>
    /\ now >= ValOf(streams[id].interval)
    /\ streams' = [send(streams, id, now) EXCEPT
                        ![id].interval = Num(ValOf(@) + LIVE_INTERVAL_MS)]
    /\ UNCHANGED <<now, limiterVars, totpVars, deviceVars, authVars, ipRules,
                   analytics, inflight, responses, lastReq, lastKey, logged, lastRead,
                   logVars>>

\* subscriber id disconnects: 'close' fires
close(id) ==
    /\ id \in DOMAIN streams
    /\ streams[id].open
    /\ streams' = clearInterval(streams, id)
    /\ UNCHANGED <<now, limiterVars, totpVars, deviceVars, authVars, ipRules,
                   analytics, inflight, responses, lastReq, lastKey, logged, lastRead,
                   logVars>>

\* half an interval passes; an interval fires when it is due, before the
\* clock is read again
TickLive ==
    /\ now + LiveStep <= LiveTimeLimit
    /\ \A id \in DOMAIN streams :
        streams[id].interval # <<>> => now + LiveStep <= ValOf(streams[id].interval)
    /\ now' = now + LiveStep
    /\ UNCHANGED <<limiterVars, totpVars, deviceVars, authVars, gatewayVars>>

InitLive ==
    /\ LimiterIdle
    /\ TotpIdle
    /\ NoDeviceRegistry
    /\ AuthIdle
    /\ GatewayIdle

NextLive ==
    \/ \E id \in Subscribers : subscribe(id)
    \/ \E id \in Subscribers : intervalFires(id)
    \/ \E id \in Subscribers : close(id)
    \/ TickLive

SpecLive == InitLive /\ [][NextLive]_vars

----------------------------------------------------------------------------
(* A FileLogWriter over a directory, written to around midnight *)

MaxLines == 2       \* maxLinesPerFile ranges over 1..MaxLines
MaxWrites == 4      \* calls of write() on a FileLogWriter in one behaviour

\* the days the logs are of, and the days the clock reaches
LogDays == {0, 1}

\* what config.logDir holds when the writer is constructed: nothing, or a
\* file an earlier writer has left that day
ExistingDirs == {<<>>, (<<0, 0, "002">> :> 1)}

\* FileLogWriter.write(log) for a log of the day date
writeLog(date, appended) ==
    /\ fileLogWriter # <<>>
    /\ Len(fileLogWriter[1].writes) < MaxWrites
    /\ LET out == writeOutcome(fileLogWriter[1], logDir,
                               date * DAY_MS + (now % DAY_MS), appended, now)
       IN  /\ fileLogWriter' = <<out.writer>>
           /\ logDir' = out.dir
    /\ UNCHANGED <<now, limiterVars, totpVars, deviceVars, authVars, ipRules, analytics,
                   inflight, responses, lastReq, lastKey, logged, lastRead, streams>>

\* FileLogWriter.destroy()
destroyWriter ==
    /\ fileLogWriter # <<>>
    /\ fileLogWriter' = <<[fileLogWriter[1] EXCEPT !.destroyed = TRUE,
                                                   !.currentFilePath = <<>>]>>
    /\ UNCHANGED <<now, limiterVars, totpVars, deviceVars, authVars, ipRules, analytics,
                   inflight, responses, lastReq, lastKey, logged, lastRead, streams,
                   logDir>>

\* a second passes, or the time until midnight
TickFileLog ==
    /\ \E t \in {now + 1000, (formatDate(now) + 1) * DAY_MS} :
        /\ formatDate(t) \in LogDays
        /\ formatTime(t) <= 1
        /\ now' = t
    /\ UNCHANGED <<limiterVars, totpVars, deviceVars, authVars, gatewayVars>>

InitFileLog ==
    /\ LimiterIdle
    /\ TotpIdle
    /\ NoDeviceRegistry
    /\ AuthIdle
    /\ ipRules = DEFAULT_IP_RULES
    /\ analytics = NoLogs
    /\ inflight = <<>>
    /\ responses = <<>>
    /\ lastReq = NoReqYet
    /\ lastKey = NoKeyYet
    /\ logged = 0
    /\ lastRead = NoReadYet
    /\ streams = <<>>
    /\ \E maxLinesPerFile \in {Num(n) : n \in 1..MaxLines} \cup {NaN}, dir \in ExistingDirs :
        /\ logDir = dir
        /\ fileLogWriter = <<NewFileLogWriter(maxLinesPerFile, dir, now)>>

NextFileLog ==
    \/ \E date \in LogDays, appended \in BOOLEAN : writeLog(date, appended)
    \/ destroyWriter
    \/ TickFileLog

SpecFileLog == InitFileLog /\ [][NextFileLog]_vars


----------------------------------------------------------------------------
(* Vocabulary of the claims *)

\* the tier configuration the latest call resolved to
LastTier == last.tierConfig[1]

\* the limiting tier has the maxRequests (and, for a window, the windowMs) it needs
WellFormedTier(tierConfig) ==
    /\ IsNum(tierConfig.maxRequests)
    /\ tierConfig.algorithm \in {"slidingWindow", "fixedWindow"} => IsNum(tierConfig.windowMs)

\* the well-formed tiers of the configuration that use the given algorithm
TiersUsing(algorithm) ==
    {tierConfig \in {config.tiers[n] : n \in DOMAIN config.tiers} :
        tierConfig.algorithm = algorithm /\ WellFormedTier(tierConfig)}

RECURSIVE SumOver(_, _)
SumOver(f, S) ==
    IF S = {} THEN 0
    ELSE LET x == CHOOSE y \in S : TRUE IN f[x] + SumOver(f, S \ {x})

\* sliding-window admissions of ip with a timestamp in the set S
AdmittedIn(ip, S) == SumOver(swAdmitted[ip], S \cap Times)

----------------------------------------------------------------------------
(* C1 *)

\* C1: a first-seen IP under a tokenBucket tier of capacity C, global ceiling
\* not exhausted, clock not advanced between its calls: call n <= C is
\* admitted with remaining = C - n, and every call after the C-th (call C+1
\* first of all) is rejected with remaining = 0.
C1_FirstSeenBucketAdmitsCapacity ==
    \A ip \in DOMAIN tbSeen :
        (/\ last.ip = ip
         /\ last.stage = "tokenBucket"
         /\ tbSeen[ip].still
         /\ WellFormedTier(LastTier))
        => LET C == ValOf(LastTier.maxRequests)
               n == tbSeen[ip].n
           IN  /\ n <= C => last.result.allowed /\ last.result.remaining = C - n
               /\ n > C => ~last.result.allowed /\ last.result.remaining = 0

\* call C+1 of a first-seen IP, C = MaxCap, has just been rejected
C1_Witness ==
    /\ last.stage = "tokenBucket"
    /\ last.ip \in DOMAIN tbSeen
    /\ tbSeen[last.ip].still
    /\ LastTier.maxRequests = Num(MaxCap)
    /\ tbSeen[last.ip].n = MaxCap + 1
    /\ ~last.result.allowed
    /\ last.result.remaining = 0

----------------------------------------------------------------------------
(* C2 *)

\* C2 as stated: after a bucket was drained to 0 and left idle for t seconds,
\* at most min(C, t*R) further requests are admitted before the next
\* rejection, at whatever pace those requests arrive.
C2_DrainBudgetAnyPace ==
    \A ip \in DOMAIN drain : drain[ip].admitted * 1000 <= drain[ip].budget

\* C2: after a bucket was drained to 0 and left idle for t seconds, at
\* most min(C, t*R) further requests are admitted before the next rejection
\* when those requests are made with no clock advance between them.
C2_DrainBudgetBurst ==
    \A ip \in DOMAIN drain :
        ~drain[ip].advanced => drain[ip].admitted * 1000 <= drain[ip].budget

\* a burst after an idle time used its whole budget and was then rejected
C2_Witness ==
    \E ip \in DOMAIN drain :
        /\ ~drain[ip].advanced
        /\ ~drain[ip].active
        /\ drain[ip].budget >= 1000
        /\ drain[ip].admitted * 1000 = drain[ip].budget
        /\ last.ip = ip /\ last.stage = "tokenBucket" /\ ~last.result.allowed

----------------------------------------------------------------------------
(* C3 *)

\* C3 as stated: under a slidingWindow tier (M, W) and a non-decreasing clock,
\* for every IP and every time t, at most M admitted requests have a
\* timestamp in the closed interval [t - W, t].
C3_SlidingClosedWindow ==
    \A tierConfig \in TiersUsing("slidingWindow") : \A ip \in IPs : \A t \in Times :
        AdmittedIn(ip, (t - ValOf(tierConfig.windowMs))..t) <= ValOf(tierConfig.maxRequests)

\* C3: under a slidingWindow tier (M, W) and a non-decreasing clock,
\* for every IP and every time t, at most M admitted requests have a
\* timestamp in the half-open interval (t - W, t].
C3_SlidingHalfOpenWindow ==
    \A tierConfig \in TiersUsing("slidingWindow") : \A ip \in IPs : \A t \in Times :
        AdmittedIn(ip, (t - ValOf(tierConfig.windowMs) + 1)..t) <= ValOf(tierConfig.maxRequests)

\* an IP filled a window with M = MaxCap admissions and was admitted again later
C3_Witness ==
    \E tierConfig \in TiersUsing("slidingWindow") : \E ip \in IPs : \E t \in Times :
        /\ tierConfig.maxRequests = Num(MaxCap)
        /\ AdmittedIn(ip, (t - ValOf(tierConfig.windowMs) + 1)..t) = MaxCap
        /\ AdmittedIn(ip, Times) > MaxCap

----------------------------------------------------------------------------
(* C4 *)

\* the time of the M-th latest sliding-window admission of ip, in a sequence:
\* <<x>> when ip has M admissions or more, <<>> otherwise
MthLatestAdmission(ip, M) ==
    LET S == {x \in Times : AdmittedIn(ip, x..TimeLimit) >= M}
    IN  IF S = {} THEN <<>> ELSE <<CHOOSE x \in S : \A y \in S : y <= x>>

\* C4: under a slidingWindow tier (M, W) and a non-decreasing clock, a call of
\* an IP that has M admitted requests less than W ms old is rejected, and a
\* call made W ms or more after the oldest of the IP's latest M admitted
\* requests (the first request of the full window) is admitted.
C4_SlidingRejectsFullAdmitsAfterWindow ==
    [][\A ip \in IPs :
        (/\ calls' # calls
         /\ last'.ip = ip
         /\ last'.stage = "slidingWindow"
         /\ WellFormedTier(last'.tierConfig[1]))
        => LET tierConfig == last'.tierConfig[1]
               M == ValOf(tierConfig.maxRequests)
               W == ValOf(tierConfig.windowMs)
               oldest == MthLatestAdmission(ip, M)
           IN  /\ AdmittedIn(ip, (now - W + 1)..now) >= M => ~last'.result.allowed
               /\ (oldest # <<>> /\ now - oldest[1] >= W) => last'.result.allowed
      ]_vars

\* M = MaxCap requests admitted at one instant, a rejection, and the IP's
\* call exactly W ms after them admitted
C4_Witness ==
    /\ last.stage = "slidingWindow"
    /\ WellFormedTier(LastTier)
    /\ LastTier.maxRequests = Num(MaxCap)
    /\ now >= ValOf(LastTier.windowMs)
    /\ swAdmitted[last.ip][now - ValOf(LastTier.windowMs)] = MaxCap
    /\ swAdmitted[last.ip][now] = 1
    /\ AdmittedIn(last.ip, Times) = MaxCap + 1
    /\ last.result.allowed
    /\ rejected >= 1

----------------------------------------------------------------------------
(* C5 *)

\* C5: under a fixedWindow tier (M, W) and a non-decreasing clock, the window
\* the limiter keeps for an IP is the one opened by the IP's first call or by
\* its first call made W ms or more after the previous window opened; of the
\* calls in one window exactly the first M are admitted (the opening call
\* among them) and every later one is rejected.
C5_FixedWindowAdmitsFirstM ==
    \A ip \in DOMAIN fwSeen :
        \A tierConfig \in TiersUsing("fixedWindow") :
            LET M == ValOf(tierConfig.maxRequests)
            IN  /\ ip \in DOMAIN fixedWindow
                /\ fixedWindow[ip].windowStart = fwSeen[ip].open
                /\ fixedWindow[ip].count = Min(fwSeen[ip].n, M)
                /\ (last.ip = ip /\ last.stage = "fixedWindow")
                   => (last.result.allowed <=> fwSeen[ip].n <= M)

\* after a rejection, the IP's first call at windowStart + W or later opened
\* a new window and was admitted
C5_Witness ==
    /\ last.stage = "fixedWindow"
    /\ WellFormedTier(LastTier)
    /\ last.ip \in DOMAIN fwSeen
    /\ fwSeen[last.ip].open >= ValOf(LastTier.windowMs)
    /\ fwSeen[last.ip].n = 1
    /\ fixedWindow[last.ip].count = 1
    /\ last.result.allowed
    /\ rejected >= 1

----------------------------------------------------------------------------
(* C6 *)

\* C6: within one global window at most globalLimit.maxRequests calls, of
\* whatever IP and tier, return allowed = true, and once that many have, every
\* further call in the window returns allowed = false with
\* limit = globalLimit.maxRequests.
C6_GlobalCeiling ==
    /\ [](gwAllowed.n <= config.globalLimit.maxRequests)
    /\ [][(/\ calls' # calls
           /\ gwAllowed'.open = gwAllowed.open
           /\ gwAllowed.n = config.globalLimit.maxRequests)
          => (/\ ~last'.result.allowed
              /\ last'.result.limit = Num(config.globalLimit.maxRequests))
        ]_vars

\* the ceiling was reached by admitted calls and the next call was turned away
C6_Witness ==
    /\ gwAllowed.n = config.globalLimit.maxRequests
    /\ last.stage = "global"
    /\ ~last.result.allowed
    /\ last.result.limit = Num(config.globalLimit.maxRequests)

----------------------------------------------------------------------------
(* C7 *)

\* C7: a call dispatched to a limiting tier whose configuration is malformed
\* (maxRequests missing, or windowMs missing for a window algorithm) fails
\* open: it returns allowed = true.
C7_MalformedTierFailsOpen ==
    (/\ last.stage \in {"tokenBucket", "slidingWindow", "fixedWindow"}
     /\ ~WellFormedTier(LastTier))
    => last.result.allowed

----------------------------------------------------------------------------
(* C8 *)

\* the entry of ip in a limiter map, in a sequence: <<>> when there is none
EntryOf(map, ip) == IF ip \in DOMAIN map THEN <<map[ip]>> ELSE <<>>

\* C8: in the token bucket a clock reading earlier than lastRefill counts as
\* an elapsed time of 0: such a call takes away at most the one token it
\* consumes when admitted, and no bucket ever holds a negative token count.
C8_BackwardClockClamped ==
    /\ [](\A ip \in DOMAIN tokenBucket :
            IsNum(tokenBucket[ip].tokens) => ValOf(tokenBucket[ip].tokens) >= 0)
    /\ [][\A ip \in DOMAIN tokenBucket :
            (/\ calls' # calls
             /\ last'.ip = ip
             /\ last'.stage = "tokenBucket"
             /\ WellFormedTier(last'.tierConfig[1])
             /\ now < tokenBucket[ip].lastRefill)
            => ValOf(tokenBucket'[ip].tokens)
                 >= ValOf(tokenBucket[ip].tokens)
                      - (IF last'.result.allowed THEN 1000 ELSE 0)
        ]_vars

----------------------------------------------------------------------------
(* C9 *)

\* C9: rateLimitHits starts at 0, never decreases, and always equals the
\* number of checkLimit calls so far that returned allowed = false, whether
\* the global ceiling or the tier algorithm rejected them.
C9_HitsCountRejections ==
    /\ rateLimitHits = 0
    /\ [](rateLimitHits = rejected)
    /\ [][rateLimitHits' >= rateLimitHits]_vars

\* a rejection by the tier algorithm and a rejection by the global ceiling
\* have both been counted
C9_Witness ==
    /\ config.globalLimit.maxRequests = 3
    /\ calls = 4
    /\ last.stage = "global"
    /\ ~last.result.allowed
    /\ rateLimitHits = 2

----------------------------------------------------------------------------
(* C10 *)

\* C10: a checkLimit call for one IP leaves the token bucket, the sliding log
\* and the fixed counter of every other IP as they were; and while another IP
\* is drained, the first call of a first-seen IP under the same tokenBucket
\* tier of capacity C is admitted with remaining = C - 1.
C10_PerIpIsolation ==
    /\ [][\A b \in IPs :
            (calls' # calls /\ last'.ip # b)
            => /\ EntryOf(tokenBucket', b) = EntryOf(tokenBucket, b)
               /\ EntryOf(slidingWindow', b) = EntryOf(slidingWindow, b)
               /\ EntryOf(fixedWindow', b) = EntryOf(fixedWindow, b)
        ]_vars
    /\ [](\A b \in DOMAIN tbSeen :
            (/\ last.ip = b
             /\ last.stage = "tokenBucket"
             /\ WellFormedTier(LastTier)
             /\ tbSeen[b].n = 1 /\ tbSeen[b].still
             /\ \E a \in DOMAIN tokenBucket \ {b} : tokenBucket[a].tokens = Num(0))
            => /\ last.result.allowed
               /\ last.result.remaining = ValOf(LastTier.maxRequests) - 1)

\* one IP has used up a bucket of capacity MaxCap and been rejected, and the
\* first call of the other IP has just been admitted with MaxCap - 1 remaining
C10_Witness ==
    /\ last.stage = "tokenBucket"
    /\ LastTier.maxRequests = Num(MaxCap)
    /\ last.ip \in DOMAIN tbSeen
    /\ tbSeen[last.ip].n = 1
    /\ \E a \in DOMAIN tokenBucket \ {last.ip} : tokenBucket[a].tokens = Num(0)
    /\ rejected = 1
    /\ calls = MaxCap + 2
    /\ last.result.allowed
    /\ last.result.remaining = MaxCap - 1

----------------------------------------------------------------------------
(* C11 *)

\* C11: when the tier a call resolves to has algorithm "none" and the call
\* passes the global ceiling, it is answered allowed = true, remaining = -1,
\* limit = -1, however many calls went before, and the token buckets, the
\* sliding logs and the fixed counters are exactly what they were before it.
C11_NoneTierUnlimited ==
    /\ [](( /\ last.tierConfig # <<>>
            /\ LastTier.algorithm = "none"
            /\ last.stage # "global")
          => /\ last.stage = "none"
             /\ last.result.allowed
             /\ last.result.remaining = -1
             /\ last.result.limit = Num(-1))
    /\ [][( /\ calls' # calls
            /\ last'.tierConfig # <<>>
            /\ last'.tierConfig[1].algorithm = "none"
            /\ last'.stage # "global")
          => /\ tokenBucket' = tokenBucket
             /\ slidingWindow' = slidingWindow
             /\ fixedWindow' = fixedWindow
        ]_vars

\* three calls in a row on the "unlimited" tier have all been admitted
\* with the sentinel answer, and no limiter has an entry for any IP
C11_Witness ==
    /\ last.tierConfig # <<>>
    /\ LastTier.algorithm = "none"
    /\ calls = 3
    /\ rejected = 0
    /\ gwAllowed.n = 3
    /\ last.result.remaining = -1
    /\ last.result.limit = Num(-1)
    /\ tokenBucket = <<>>

----------------------------------------------------------------------------
(* C12 *)

----------------------------------------------------------------------------
(* C17 *)

\* C17: validateTOTP(browserId, secret, code) is true exactly when code is the
\* code of the current one-hour window or of the previous one for that
\* browserId and secret; so a code generated for window w is accepted when it
\* is presented for the same browserId and secret in window w or w + 1, and is
\* rejected in every other window and for any other browserId or secret.
C17_TotpAcceptedForTwoWindows ==
    totp.validated =>
        /\ totp.valid =
            \/ totp.code = generateTOTP(totp.asBrowserId, totp.asSecret, 0, now)
            \/ totp.code = generateTOTP(totp.asBrowserId, totp.asSecret, -1, now)
        /\ totp.valid =
            /\ totp.browserId = totp.asBrowserId
            /\ totp.secret = totp.asSecret
            /\ WindowIndex(now) \in {totp.window, totp.window + 1}

\* a code generated for window 1 has just been accepted half an hour before
\* window 2 ends
C17_Witness ==
    /\ totp.validated
    /\ totp.valid
    /\ totp.window = 1
    /\ WindowIndex(now) = 2
    /\ now % TIME_WINDOW_MS = HalfWindow

----------------------------------------------------------------------------
(* C18 *)

\* the device a TOTP key names is in the registry map, revoked or expired
NamesDeadDevice(apiKey) ==
    /\ parseKey(apiKey) # <<>>
    /\ LET b == parseKey(apiKey)[1].browserId
       IN  /\ b \in DOMAIN devices
           /\ (~devices[b].active \/ getTime(devices[b].expiresAt) <= now)

\* C18: with a device registry and no custom validator, a request whose TOTP
\* key names a device that is revoked or expired is answered 401 "Device not
\* registered or expired" and not passed on, which is exactly the answer the
\* same key gets from a registry that has no entry for that browserId,
\* whatever the code in the key.
C18_DeadDeviceLooksUnregistered ==
    [][(/\ lastAuth'.calls = 1
        /\ deviceRegistry
        /\ ~customTotpValidator
        /\ NamesDeadDevice(lastAuth'.apiKey))
       => LET b == parseKey(lastAuth'.apiKey)[1].browserId
              never == apiKeyAuthOutcome(MapDelete(devices, {b}), writeTimeout,
                                         "10.0.0.1", lastAuth'.apiKey, now)
          IN  /\ ~lastAuth'.next
              /\ lastAuth'.status = 401
              /\ lastAuth'.error = "Device not registered or expired"
              /\ [next |-> lastAuth'.next, status |-> lastAuth'.status,
                  error |-> lastAuth'.error] = Response(never)
    ]_vars

\* a key that carries the right code for a revoked device's secret has just
\* been turned away as "Device not registered or expired"
C18_Witness ==
    /\ lastAuth.calls = 1
    /\ ~customTotpValidator
    /\ parseKey(lastAuth.apiKey) # <<>>
    /\ LET p == parseKey(lastAuth.apiKey)[1]
       IN  /\ p.browserId \in DOMAIN devices
           /\ ~devices[p.browserId].active
           /\ getTime(devices[p.browserId].expiresAt) > now
           /\ validateTOTP(p.browserId, devices[p.browserId].sharedSecret, p.code, now)
    /\ lastAuth.status = 401
    /\ lastAuth.error = "Device not registered or expired"

----------------------------------------------------------------------------
(* C19 *)

----------------------------------------------------------------------------
\* the attempts recorded for ip that were made less than 60 s before the
\* clock value t
MadeInLastMinute(attempts, ip, t) ==
    IF ip \in DOMAIN attempts
    THEN {i \in 1..Len(attempts[ip]) : t - attempts[ip][i] < 60 * 1000}
    ELSE {}

\* C20: registerDevice answers 429 exactly when the calling address already
\* has 10 or more recorded attempts made in the last 60 s.  A call that is not
\* answered 429 is recorded, with the clock value of the call, after the
\* attempts of the last 60 s and before the cap is looked at, so a call
\* answered 403 is recorded as well; a call answered 429 is not recorded.
\* No address ever has more than 10 recorded attempts of the last 60 s.
C20_VelocityLimit ==
    /\ [](\A ip \in DOMAIN registrationAttempts :
            Cardinality(MadeInLastMinute(registrationAttempts, ip, now)) <= 10)
    /\ [][regs' = regs + 1 =>
            LET ip == lastReg'.ip
                before == GetOr(registrationAttempts, ip, <<>>)
                made == MadeInLastMinute(registrationAttempts, ip, now)
                kept == SelectSeq(before, LAMBDA a : now - a < 60 * 1000)
            IN  /\ (~lastReg'.result.success /\ lastReg'.result.status = 429)
                        <=> Cardinality(made) >= 10
                /\ (lastReg'.result.success \/ lastReg'.result.status = 403)
                        => registrationAttempts'[ip] = Append(kept, now)
                /\ (~lastReg'.result.success /\ lastReg'.result.status = 429)
                        => registrationAttempts'[ip] = kept
                /\ \A other \in DOMAIN registrationAttempts \ {ip} :
                        registrationAttempts'[other] = registrationAttempts[other]
       ]_vars

\* the eleventh call of an address within a minute is answered 429 after ten
\* calls that the cap answered 403, some of them at an earlier clock value,
\* while the other address has registered a device
C20_Witness ==
    /\ lastReg.ip = "10.0.0.1"
    /\ ~lastReg.result.success
    /\ lastReg.result.status = 429
    /\ getActiveCountByIp(devices, "10.0.0.1", now) >= MAX_REGISTRATIONS_PER_IP_TOTAL
    /\ Len(registrationAttempts["10.0.0.1"]) = 10
    /\ \E i \in 1..10 : registrationAttempts["10.0.0.1"][i] < now
    /\ issued > 0

----------------------------------------------------------------------------
\* the devices of the map that were registered from ip, are not revoked and
\* expire after the clock value t
ActiveUnexpired(devs, ip, t) ==
    {id \in DOMAIN devs :
        devs[id].ip = ip /\ devs[id].active /\ devs[id].expiresAt.iso > t}

\* C21 as stated: registerDevice answers 403 whenever the calling address
\* already has 30 or more active, unexpired devices registered from it.
C21_CapAlwaysAnswers403 ==
    [][(regs' = regs + 1
            /\ Cardinality(ActiveUnexpired(devices, lastReg'.ip, now)) >= 30)
        => (~lastReg'.result.success /\ lastReg'.result.status = 403)]_vars

\* C21: a registerDevice call of an address that already has 30 or more
\* active, unexpired devices registered from it is refused and changes no
\* device: with 429 when the address has made 10 or more attempts in the last
\* 60 s, and with 403 otherwise; no call is answered 403 for any other
\* reason.  From an empty registry, no address ever has more than 30 active
\* unexpired devices registered from it.
C21_PerIpCap ==
    /\ [](\A ip \in IPs : Cardinality(ActiveUnexpired(devices, ip, now)) <= 30)
    /\ [][regs' = regs + 1 =>
            LET ip == lastReg'.ip
                held == Cardinality(ActiveUnexpired(devices, ip, now))
                made == MadeInLastMinute(registrationAttempts, ip, now)
                refused(status) ==
                    ~lastReg'.result.success /\ lastReg'.result.status = status
            IN  /\ held >= 30 => (~lastReg'.result.success /\ devices' = devices)
                /\ refused(403) <=> (held >= 30 /\ Cardinality(made) < 10)
                /\ (held >= 30 /\ Cardinality(made) >= 10) => refused(429)
       ]_vars

\* the address holds 30 devices after one of its first 30 was revoked and
\* another registered in its place, and its call is answered 403
C21_Witness ==
    /\ lastReg.ip = "10.0.0.1"
    /\ ~lastReg.result.success
    /\ lastReg.result.status = 403
    /\ Cardinality(ActiveUnexpired(devices, "10.0.0.1", now)) = 30
    /\ \E id \in DOMAIN devices : devices[id].ip = "10.0.0.1" /\ ~devices[id].active
    /\ \E id \in DOMAIN devices : devices[id].ip = "10.0.0.2"

----------------------------------------------------------------------------
\* C22: every change of the device map (a new registration, a
\* re-registration, updateLastSeen, a revocation, the removal of an expired
\* entry) leaves exactly one persistence timer pending, due 2000 ms later, and
\* the handle changes in no other way; at most one persistence timer is
\* pending at any time.  A timer that fires writes the file once, 2000 ms
\* after the last change, with the device map as it is at that moment, and
\* leaves no timer pending; a pending timer fires unless destroy() flushes
\* first.
C22_DebouncedPersistence ==
    /\ [](Cardinality(timers) <= 1)
    /\ [][(devices' # devices \/ writeTimeout' # writeTimeout)
            => (writeTimeout' = <<now + 2000>> /\ timers' = {now + 2000})]_vars
    /\ [][(saves' = saves + 1 /\ ~destroyed')
            => /\ writeTimeout = <<now>>
               /\ timers = {now}
               /\ timers' = {}
               /\ file' = <<{devices[id] : id \in DOMAIN devices}>>]_vars
    /\ [][saves' \in {saves, saves + 1}]_vars
    /\ [](timers # {} => <>(timers = {}))

\* the file has just been written by the timer that the last of three changes
\* armed, each made less than 2000 ms after the one before, and holds the
\* device that was registered and then revoked
C22_Witness ==
    /\ now = 4000
    /\ writeTimeout = <<now>>
    /\ timers = {}
    /\ saves = 1
    /\ ~destroyed
    /\ file = <<{devices[id] : id \in DOMAIN devices}>>
    /\ \E id \in DOMAIN devices : ~devices[id].active /\ devices[id].ip = "10.0.0.1"
    /\ issued = 1

----------------------------------------------------------------------------
\* C23: once destroy() has returned, the devices file holds exactly the
\* entries of the device map, no persistence timer is pending and the hourly
\* sweep no longer fires; from then on nothing is written and nothing is
\* swept.
C23_DestroyFlushes ==
    /\ []((destroyed /\ thrown = "")
            => /\ file = <<{devices[id] : id \in DOMAIN devices}>>
               /\ timers = {}
               /\ cleanupInterval = <<>>)
    /\ [][destroyed => (saves' = saves /\ file' = file /\ devices' = devices)]_vars

\* destroy() has flushed a revocation: the one write made is the one that put
\* the revoked device in the file, and time has gone on past the deadline of
\* the timer that the revocation armed
C23_Witness ==
    /\ destroyed
    /\ thrown = ""
    /\ writeTimeout # <<>>
    /\ now > writeTimeout[1]
    /\ file # <<>>
    /\ \E entry \in file[1] : ~entry.active
    /\ saves = 1

----------------------------------------------------------------------------
\* C24: a file write that fails while the devices are persisted (in the
\* debounced save, in the save that creates the file, or in the flush of
\* destroy()) is swallowed: no exception leaves the service, and the device
\* map is as it was.
C24_WriteFailureSwallowed ==
    [][saves' = saves + 1 => (thrown' = "" /\ devices' = devices)]_vars

----------------------------------------------------------------------------
\* the addLog calls, numbered from 1, whose records the buffer retains
Retained(buffer) == {buffer.logs[i].request : i \in 1..Len(buffer.logs)}

\* C25: after n addLog calls the buffer retains exactly min(n, 10000)
\* records, those of the latest calls, and totalRequests is min(n, 10000);
\* count never exceeds 10000 and never decreases; once the buffer is full,
\* each addLog evicts exactly the oldest retained record.
C25_BufferRetainsLatest ==
    /\ [](LET kept == IF logged < 10000 THEN logged ELSE 10000
          IN  /\ analytics.count = kept
              /\ Len(analytics.logs) = kept
              /\ totalRequests(analytics) = kept
              /\ Retained(analytics) = (logged - kept + 1)..logged)
    /\ [][analytics'.count >= analytics.count]_vars
    /\ [][(logged' = logged + 1 /\ analytics.count = 10000)
            => LET oldest == CHOOSE r \in Retained(analytics) :
                                \A other \in Retained(analytics) : r <= other
               IN  Retained(analytics') =
                        (Retained(analytics) \ {oldest}) \cup {logged + 1}]_vars

\* 10002 records have been written: 10000 are retained and the first two are
\* gone
C25_Witness ==
    /\ logged = 10002
    /\ analytics.count = 10000
    /\ analytics.head = 2
    /\ Retained(analytics) = 3..10002

----------------------------------------------------------------------------
\* elements [offset, offset + limit) of the records the buffer retains, the
\* record of the latest addLog call first: element k, counted from 0, is the
\* record of the call numbered logged - k
RecentPage(limit, offset) ==
    LET end == IF offset + limit < analytics.count
               THEN offset + limit ELSE analytics.count
        size == IF end > offset THEN end - offset ELSE 0
        recordOf(n) == CHOOSE r \in {analytics.logs[i] : i \in 1..Len(analytics.logs)} :
                            r.request = n
    IN  [j \in 1..size |-> recordOf(logged - offset - j + 1)]

\* C26 as stated: getRecentLogs(limit, offset) returns elements
\* [offset, offset + limit) of the retained records, newest first, whatever
\* limit and offset are.
C26_RecentLogsAnyLimit ==
    lastRead.called => lastRead.logs = RecentPage(lastRead.limit, lastRead.offset)

\* C26: for limit >= 0 and offset >= 0, getRecentLogs(limit, offset) returns
\* elements [offset, offset + limit) of the retained records ordered newest
\* first by insertion, both before the buffer has wrapped and after it.
C26_RecentLogsPage ==
    (lastRead.called /\ lastRead.limit >= 0 /\ lastRead.offset >= 0)
        => lastRead.logs = RecentPage(lastRead.limit, lastRead.offset)

\* the buffer has wrapped twice over its first slots, and the page of two
\* records at offset 9999 holds the one record left there, the oldest
C26_Witness ==
    /\ logged = 10002
    /\ analytics.head = 2
    /\ lastRead.called
    /\ lastRead.limit = 2
    /\ lastRead.offset = 9999
    /\ Len(lastRead.logs) = 1
    /\ lastRead.logs[1].request = 3

----------------------------------------------------------------------------
\* C27: the record of a request is appended when its response finishes, after
\* the records of the responses that finished before it, whatever the order
\* in which the requests arrived, and carries the clock value of that moment;
\* with a clock that never goes back, the retained records read from the
\* oldest to the newest have non-decreasing timestamps.
C27_LoggedInFinishOrder ==
    /\ [](LET newestFirst == getOrderedLogs(analytics)
          IN  \A i, j \in 1..Len(newestFirst) :
                i <= j => newestFirst[i].timestamp >= newestFirst[j].timestamp)
    /\ [][logged' = logged + 1 =>
            LET newestFirst == getOrderedLogs(analytics')
            IN  /\ newestFirst[1].request \in DOMAIN inflight \ DOMAIN inflight'
                /\ newestFirst[1].timestamp = now
                /\ Tail(newestFirst) = getOrderedLogs(analytics)]_vars

\* the request that arrived second finished first, a second before the other:
\* its record is the older one
C27_Witness ==
    /\ analytics.count = 2
    /\ analytics.logs[1].request = 2
    /\ analytics.logs[2].request = 1
    /\ analytics.logs[1].timestamp < analytics.logs[2].timestamp
    /\ inflight = <<>>

----------------------------------------------------------------------------
\* C28: a subscriber of the live stream is sent one snapshot when it
\* subscribes and one every 5000 ms after that for as long as it is
\* connected: its k-th event is written 5000 * (k - 1) ms after it subscribed
\* and none is missing.  When a subscriber disconnects its interval is
\* cleared and no further event is written to it, and nothing of any other
\* subscriber changes.
C28_LiveStream ==
    /\ [](\A id \in DOMAIN streams :
            LET sub == streams[id]
                due == (now - sub.since) \div 5000 + 1
            IN  /\ Len(sub.events) >= 1
                /\ \A k \in 1..Len(sub.events) :
                        sub.events[k].at = sub.since + 5000 * (k - 1)
                /\ sub.open =>
                        \/ Len(sub.events) = due
                        \/ /\ Len(sub.events) = due - 1
                           /\ now = sub.since + 5000 * (due - 1)
                /\ ~sub.open => sub.interval = <<>>)
    /\ [][\A id \in DOMAIN streams :
            /\ ~streams[id].open => streams'[id] = streams[id]
            /\ (streams[id].open /\ ~streams'[id].open)
                    => \A other \in DOMAIN streams \ {id} :
                            streams'[other] = streams[other]]_vars

\* one subscriber disconnected after its first event; 5000 ms later the other,
\* which had subscribed with it, has its second event, and the first has none
C28_Witness ==
    /\ DOMAIN streams = {1, 2}
    /\ ~streams[1].open
    /\ Len(streams[1].events) = 1
    /\ streams[2].open
    /\ streams[2].since = streams[1].since
    /\ Len(streams[2].events) = 2
    /\ now > streams[2].events[2].at

----------------------------------------------------------------------------
\* the least number of whole seconds that is not less than ms milliseconds
SecondsUp(ms) == CHOOSE k \in -1..(ms \div 1000 + 1) : (k - 1) * 1000 < ms /\ ms <= k * 1000

\* C29: the rate-limit stage sets the three X-RateLimit headers exactly when
\* the limit of the decision is a number above 0, with Limit the limit,
\* Remaining the larger of 0 and remaining, and Reset the reset time in whole
\* seconds, rounded up.  A decision that is not allowed is answered 429
\* "Rate limit exceeded" with retryAfter the same number of seconds, and next
\* is not called; an allowed one is passed on by calling next, with no answer
\* of the stage.
C29_RateLimitHeaders ==
    [][calls' = calls + 1 =>
        LET result == last'.result
            stage == lastReq'.limited[1]
            seconds == IF result.resetMs = <<>> THEN <<>>
                       ELSE <<SecondsUp(result.resetMs[1])>>
        IN  /\ stage.headers # <<>> <=> (result.limit # <<>> /\ result.limit[1] > 0)
            /\ stage.headers # <<>> =>
                    /\ stage.headers[1].Limit = result.limit
                    /\ stage.headers[1].Remaining >= 0
                    /\ stage.headers[1].Remaining >= result.remaining
                    /\ stage.headers[1].Remaining \in {0, result.remaining}
                    /\ stage.headers[1].Reset = seconds
            /\ ~result.allowed =>
                    /\ stage.status = 429
                    /\ stage.error = "Rate limit exceeded"
                    /\ stage.retryAfter = <<seconds>>
                    /\ ~stage.next
            /\ result.allowed =>
                    /\ stage.next
                    /\ stage.status = 0
                    /\ stage.retryAfter = <<>>
    ]_vars

\* a request over the limit of its tier, half a second after the one that
\* took the token, is answered 429 with the headers and retryAfter 1
C29_Witness ==
    /\ lastReq.limited # <<>>
    /\ lastReq.limited[1].status = 429
    /\ lastReq.limited[1].headers # <<>>
    /\ lastReq.limited[1].headers[1].Remaining = 0
    /\ lastReq.limited[1].headers[1].Reset = <<1>>
    /\ lastReq.limited[1].retryAfter = << <<1>> >>
    /\ last.result.resetMs = <<500>>

----------------------------------------------------------------------------
\* C30: the IP filter answers 403, and does not call next, exactly when the
\* mode is allowlist, the allowlist is not empty and the address is not on
\* it, or the mode is blocklist and the address is on the blocklist; in every
\* other case, empty lists included, it calls next and answers nothing.  A
\* request of the same address filtered again gets the same decision.
C30_IpFilterDecision ==
    /\ [](lastReq.filtered # <<>> =>
            LET refused ==
                    \/ /\ ipRules.mode = "allowlist"
                       /\ ipRules.allowlist # {}
                       /\ lastReq.ip \notin ipRules.allowlist
                    \/ /\ ipRules.mode = "blocklist"
                       /\ lastReq.ip \in ipRules.blocklist
                decision == lastReq.filtered[1]
            IN  /\ refused => (decision.status = 403 /\ ~decision.next)
                /\ ~refused => (decision.status = 0 /\ decision.next))
    /\ [][(lastReq.filtered # <<>> /\ lastReq'.filtered # <<>>
                /\ lastReq'.ip = lastReq.ip)
            => lastReq'.filtered = lastReq.filtered]_vars

\* under an allowlist that names only the other address, the second request
\* of an address is answered 403 as its first was, a second earlier
C30_Witness ==
    /\ ipRules.mode = "allowlist"
    /\ ipRules.allowlist = {"10.0.0.2"}
    /\ lastReq.filtered # <<>>
    /\ lastReq.ip = "10.0.0.1"
    /\ lastReq.id = 2
    /\ responses = <<403, 403>>
    /\ now >= 1000

----------------------------------------------------------------------------
\* the step is the pipeline handling a request
RequestStep == Len(responses') = Len(responses) + 1

\* C13: the stages run in the order logger, authentication, IP filter, rate
\* limiter, each only if the ones before it passed the request on: a request
\* with a bad key is answered 401 whatever its address, a request answered 403
\* has been authenticated, and a request answered 401 or 403 does not reach
\* the rate limiter and leaves the global counter, the per-client limiter
\* states and rateLimitHits as they were.
C13_RejectedBeforeRateLimiter ==
    [][RequestStep =>
        /\ lastReq'.ran \in {{"requestLogger", "apiKeyAuth"},
                             {"requestLogger", "apiKeyAuth", "ipFilter"},
                             {"requestLogger", "apiKeyAuth", "ipFilter", "rateLimiter"}}
        /\ lastReq'.statusCode = 401 <=> lastReq'.ran = {"requestLogger", "apiKeyAuth"}
        /\ lastReq'.statusCode = 403 <=>
                lastReq'.ran = {"requestLogger", "apiKeyAuth", "ipFilter"}
        /\ lastReq'.statusCode = 403 => lastReq'.auth.next
        /\ lastReq'.statusCode \in {401, 403} =>
                /\ globalWindow' = globalWindow
                /\ tokenBucket' = tokenBucket
                /\ slidingWindow' = slidingWindow
                /\ fixedWindow' = fixedWindow
                /\ rateLimitHits' = rateLimitHits
                /\ calls' = calls
        /\ lastReq'.statusCode \notin {401, 403} => calls' = calls + 1
    ]_vars

\* a request with a good key from a blocked address is answered 403 after a
\* request that the rate limiter has counted
C13_Witness ==
    /\ lastReq.statusCode = 403
    /\ lastReq.ip = "10.0.0.2"
    /\ lastReq.clientId = "key_001"
    /\ Len(responses) = 2
    /\ responses[1] = 200
    /\ globalWindow # <<>>
    /\ calls = 1

\* the records of the analytics buffer that were made for request id
LogsOf(id) == {i \in 1..Len(analytics.logs) : analytics.logs[i].request = id}

\* C14: a request whose response has not finished has no record in the
\* analytics buffer, and one whose response has finished has exactly one,
\* which carries the status code of that response, whichever stage answered;
\* the record is appended by the step in which the response finishes; and
\* every response that is pending finishes and is recorded.
C14_OneRecordPerResponse ==
    /\ [](\A id \in 1..Len(responses) :
            IF id \in DOMAIN inflight
            THEN LogsOf(id) = {}
            ELSE /\ Cardinality(LogsOf(id)) = 1
                 /\ \A i \in LogsOf(id) : analytics.logs[i].statusCode = responses[id])
    /\ [][\A id \in DOMAIN inflight :
            id \notin DOMAIN inflight' =>
                /\ Len(analytics'.logs) = Len(analytics.logs) + 1
                /\ SubSeq(analytics'.logs, 1, Len(analytics.logs)) = analytics.logs
                /\ analytics'.logs[Len(analytics'.logs)].request = id
                /\ analytics'.logs[Len(analytics'.logs)].statusCode = responses[id]
                /\ analytics'.count = analytics.count + 1
         ]_vars
    /\ \A id \in 1..MaxRequests :
            (id \in DOMAIN inflight) ~> (id \notin DOMAIN inflight /\ LogsOf(id) # {})

\* the response of the rate limiter to the second request finished before the
\* response to the first: both are recorded, in the order of finishing
C14_Witness ==
    /\ analytics.count = 2
    /\ inflight = <<>>
    /\ analytics.logs[1].request = 2
    /\ analytics.logs[1].statusCode = 429
    /\ analytics.logs[2].request = 1
    /\ analytics.logs[2].statusCode = 200

\* the positions of the entries of config.apiKeys.keys with the secret key
\* and the active flag set
ActiveMatches(key) == {i \in 1..Len(apiKeys) : apiKeys[i].key = key /\ apiKeys[i].active}

\* C15: a request that presents a key which is not a TOTP key passes
\* authentication iff the key list has an entry with that secret and the
\* active flag set; it then carries that entry's id as clientId and that
\* entry's tier, and otherwise it is answered 401 'Invalid or revoked API
\* key' and no later stage sees it.
C15_StaticKeyAuthenticates ==
    [][(RequestStep /\ lastReq'.apiKey # <<>> /\ ~StartsWithTotp(lastReq'.apiKey)) =>
        IF ActiveMatches(lastReq'.apiKey) # {}
        THEN /\ lastReq'.auth.next
             /\ "ipFilter" \in lastReq'.ran
             /\ \E i \in ActiveMatches(lastReq'.apiKey) :
                    /\ lastReq'.clientId = apiKeys[i].id
                    /\ lastReq'.tier = apiKeys[i].tier
        ELSE /\ ~lastReq'.auth.next
             /\ lastReq'.statusCode = 401
             /\ lastReq'.error = "Invalid or revoked API key"
             /\ lastReq'.ran = {"requestLogger", "apiKeyAuth"}
             /\ lastReq'.clientId = ""
             /\ calls' = calls
    ]_vars

\* a key created through POST /keys is accepted under its id and tier while
\* another key of the list is revoked
C15_Witness ==
    /\ lastReq.apiKey = <<"gw", "live", "r2">>
    /\ lastReq.clientId = "key_002"
    /\ lastReq.tier = "free"
    /\ lastReq.statusCode \in {200, 429}
    /\ Len(apiKeys) = 2
    /\ ~apiKeys[1].active

\* C16: an entry of the key list that is inactive stays inactive and keeps
\* its place, id and secret, and every request that presents its secret is
\* answered 401; DELETE /keys/:keyId with an id of the list answers 200 and
\* clears the active flag of the first entry with that id, changing nothing
\* else, and with an id that is not in the list answers 404 and leaves the
\* list as it was.
C16_RevokedStaysRevoked ==
    [][/\ Len(apiKeys') >= Len(apiKeys)
       /\ \A i \in 1..Len(apiKeys) :
            /\ apiKeys'[i].id = apiKeys[i].id
            /\ apiKeys'[i].key = apiKeys[i].key
            /\ ~apiKeys[i].active => ~apiKeys'[i].active
       /\ (RequestStep /\ \E i \in 1..Len(apiKeys) :
                            apiKeys[i].key = lastReq'.apiKey /\ ~apiKeys[i].active)
            => (lastReq'.statusCode = 401 /\ ~lastReq'.auth.next)
       /\ lastKey'.op = "revoke" =>
            LET named == {i \in 1..Len(apiKeys) : apiKeys[i].id = lastKey'.keyId}
            IN  IF named = {}
                THEN lastKey'.status = 404 /\ apiKeys' = apiKeys
                ELSE /\ lastKey'.status = 200
                     /\ Len(apiKeys') = Len(apiKeys)
                     /\ \E i \in named : ~apiKeys'[i].active
                     /\ \A i \in 1..Len(apiKeys) \ named : apiKeys'[i] = apiKeys[i]
    ]_vars

\* the key that was accepted by the first request is revoked, a further key
\* is created, and the second request, which presents the revoked key, is
\* answered 401
C16_Witness ==
    /\ Len(responses) = 2
    /\ responses[1] \in {200, 429}
    /\ lastReq.id = 2
    /\ lastReq.apiKey = <<"gw", "live", "0a">>
    /\ lastReq.statusCode = 401
    /\ Len(apiKeys) = 2
    /\ apiKeys[1].id = "key_001"
    /\ ~apiKeys[1].active
    /\ apiKeys[2].active

----------------------------------------------------------------------------
\* C31: parseKey(formatKey(id, code)) is {browserId: id, code} for every
\* browserId that is not the empty string, underscores in it or not, and
\* every code that is not empty; and parseKey returns null for a key that
\* does not start with 'totp_', that has no '_' after the prefix, whose
\* browserId is empty or whose code is empty.
C31_KeyRoundTrip ==
    /\ \A made \in {totp.formatted[i] : i \in DOMAIN totp.formatted} :
            (Join(made.browserId) # "" /\ made.code # "")
                => totp.parsed = <<[browserId |-> made.browserId, code |-> made.code]>>
    /\ totp.key # <<>> =>
            LET key == totp.key
                prefixed == Len(key) >= 2 /\ key[1] = "totp"
                separated == Len(key) >= 3
                browserId == Join(SubSeq(key, 2, Len(key) - 1))
                code == key[Len(key)]
            IN  (~prefixed \/ ~separated \/ browserId = "" \/ code = "")
                    => totp.parsed = <<>>

\* a key made of a browserId with an underscore in it has been parsed back,
\* after which nothing else has been parsed
C31_Witness ==
    /\ totp.formatted = << [browserId |-> <<"0b5e-01", "totp">>, code |-> "c0de"] >>
    /\ totp.key = <<"totp", "0b5e-01", "totp", "c0de">>
    /\ totp.parsed = totp.formatted


----------------------------------------------------------------------------
\* the paths of the records the buffer holds, and how often each occurs
PathsHeld == {analytics.logs[i].path : i \in DOMAIN analytics.logs}
RequestsTo(p) == Cardinality({i \in DOMAIN analytics.logs : analytics.logs[i].path = p})
ErrorsHeld == Cardinality({i \in DOMAIN analytics.logs : analytics.logs[i].statusCode >= 400})
TimeHeld ==
    LET spent(t) ==
            t * Cardinality({i \in DOMAIN analytics.logs : analytics.logs[i].responseTime = t})
    IN  SumOf(spent, {analytics.logs[i].responseTime : i \in DOMAIN analytics.logs})

\* topEndpoints lists at most five paths, those requested most often, in
\* descending order of their counts, each with the number of held records
\* that carry it
TopEndpointsRight(top) ==
    /\ Len(top) = Min(5, Cardinality(PathsHeld))
    /\ \A k \in DOMAIN top :
            /\ top[k].path \in PathsHeld
            /\ top[k].count = RequestsTo(top[k].path)
    /\ \A k, m \in DOMAIN top : k < m =>
            /\ top[k].path # top[m].path
            /\ top[k].count >= top[m].count
    /\ \A p \in PathsHeld \ {top[k].path : k \in DOMAIN top} :
            \A k \in DOMAIN top : top[k].count >= RequestsTo(p)

\* h hundredths is the quotient n / d rounded to a hundredth, upwards from
\* the middle
NearestHundredth(h, n, d) ==
    /\ 2 * (h * d - 100 * n) <= d
    /\ 2 * (100 * n - h * d) < d

\* C32 as stated: errorRate is 100 * errors / count and avgResponseTime is the
\* mean response time, exactly.
C32_AggregatesExact ==
    \A snap \in {lastRead.snapshot[i] : i \in DOMAIN lastRead.snapshot} :
        /\ snap.errorRate * analytics.count = 100 * (100 * ErrorsHeld)
        /\ snap.avgResponseTime * analytics.count = 100 * TimeHeld
        /\ TopEndpointsRight(snap.topEndpoints)

\* C32: getAnalytics aggregates over every record the buffer holds:
\* totalRequests is their number; errorRate is 100 * (records with statusCode
\* >= 400) / count and avgResponseTime is the mean of responseTime, each
\* rounded to a hundredth, and both are 0 when the buffer is empty;
\* topEndpoints lists at most five paths, those with the greatest counts, in
\* descending order of count, each with its exact count.
C32_Aggregates ==
    \A snap \in {lastRead.snapshot[i] : i \in DOMAIN lastRead.snapshot} :
        /\ snap.totalRequests = Len(analytics.logs)
        /\ analytics.count = Len(analytics.logs)
        /\ IF analytics.count = 0
           THEN snap.errorRate = 0 /\ snap.avgResponseTime = 0
           ELSE /\ NearestHundredth(snap.errorRate, 100 * ErrorsHeld, analytics.count)
                /\ NearestHundredth(snap.avgResponseTime, TimeHeld, analytics.count)
        /\ TopEndpointsRight(snap.topEndpoints)

\* a snapshot of a buffer that holds six paths: the one requested last is
\* among the five listed, and neither the error rate nor the mean response
\* time is a whole number of hundredths before rounding
C32_Witness ==
    /\ lastRead.snapshot # <<>>
    /\ Cardinality(PathsHeld) > 5
    /\ \E k \in 1..5 : lastRead.snapshot[1].topEndpoints[k].path = "/api/f"
    /\ (100 * 100 * ErrorsHeld) % analytics.count # 0
    /\ (100 * TimeHeld) % analytics.count # 0

----------------------------------------------------------------------------
\* C33 as stated: FileLogWriter never appends more than maxLinesPerFile lines
\* to one file, so no file of the directory holds more lines than that
C33_NeverMoreThanMaxLines ==
    fileLogWriter # <<>> =>
        \A f \in DOMAIN logDir : logDir[f] <= fileLogWriter[1].maxLines

----------------------------------------------------------------------------
\* C34: getDevice(browserId) returns the entry iff the map holds it, it is
\* active and it has not expired; a lookup of an expired entry deletes it and
\* arms the persistence timer; a lookup of an inactive, unexpired entry
\* returns null and leaves the map and the timer as they are.  The first
\* conjunct is about what a call would do in every state the registry
\* reaches, the second about the steps in which the call is made.
C34_GetDevice ==
    /\ [](\A b \in RegisteringIds :
            LET present == b \in DOMAIN devices
                expired == present /\ getTime(devices[b].expiresAt) <= now
                out == getDeviceOutcome(devices, writeTimeout, b, now)
            IN  /\ out.device = IF present /\ ~expired /\ devices[b].active
                                THEN <<devices[b]>> ELSE <<>>
                /\ expired =>
                    /\ out.devices = [id \in DOMAIN devices \ {b} |-> devices[id]]
                    /\ out.writeTimeout = Num(now + DEBOUNCE_WRITE_MS)
                /\ (present /\ ~expired /\ ~devices[b].active) =>
                    /\ out.devices = devices
                    /\ out.writeTimeout = writeTimeout)
    /\ [][\A b \in RegisteringIds : getDevice(b) =>
            LET present == b \in DOMAIN devices
                expired == present /\ getTime(devices[b].expiresAt) <= now
            IN  /\ expired =>
                    /\ b \notin DOMAIN devices'
                    /\ writeTimeout' = Num(now + DEBOUNCE_WRITE_MS)
                    /\ timers' = {now + DEBOUNCE_WRITE_MS}
                /\ (present /\ ~expired /\ ~devices[b].active) =>
                    /\ devices' = devices
                    /\ writeTimeout' = writeTimeout
                    /\ timers' = timers]_vars

\* the entry of the devices file has expired and no sweep has run, yet the
\* map has lost it and the persistence timer has just been armed: getDevice
\* has found it expired
C34_Witness ==
    /\ now < CLEANUP_INTERVAL_MS
    /\ cleanupInterval = Num(CLEANUP_INTERVAL_MS)
    /\ file = <<DevicesFile(AgingFile)>>
    /\ getTime(AgingFile[<<"0b5e-01">>].expiresAt) <= now
    /\ <<"0b5e-01">> \notin DOMAIN devices
    /\ writeTimeout = Num(now + DEBOUNCE_WRITE_MS)
    /\ timers = {now + DEBOUNCE_WRITE_MS}


----------------------------------------------------------------------------
\* the step takes the revoked entry of b out of the map, or puts another
\* entry in its place
RevokedEntryGone(b) ==
    /\ b \in DOMAIN devices
    /\ ~devices[b].active
    /\ \/ b \notin DOMAIN devices'
       \/ devices'[b].sharedSecret # devices[b].sharedSecret

\* what a revokeDevice call would do in this state: it clears the flag of the
\* entry and deletes nothing, or returns false and changes nothing
RevokeOnlyClearsActive ==
    \A b \in BrowserIds :
        LET out == revokeDeviceOutcome(devices, writeTimeout, b, now)
        IN  IF b \in DOMAIN devices
            THEN /\ out.result = TRUE
                 /\ out.devices = [devices EXCEPT ![b].active = FALSE]
            ELSE /\ out.result = FALSE
                 /\ out.devices = devices
                 /\ out.writeTimeout = writeTimeout

\* the steps of revokeDevice: only the flag of that entry changes; for an
\* unknown browserId neither the map nor the timers change
RevokeStep ==
    \A b \in BrowserIds : revokeDevice(b) =>
        IF b \in DOMAIN devices
        THEN devices' = [devices EXCEPT ![b].active = FALSE]
        ELSE UNCHANGED <<devices, writeTimeout, timers, file, saves>>

\* the steps of the hourly sweep: exactly the entries with expiresAt <= now
\* leave the map, and the persistence timer is armed only if one has left
SweepStep ==
    cleanupExpired =>
        LET kept == {id \in DOMAIN devices : getTime(devices[id].expiresAt) > now}
        IN  /\ devices' = [id \in kept |-> devices[id]]
            /\ IF kept # DOMAIN devices
               THEN writeTimeout' = Num(now + DEBOUNCE_WRITE_MS)
               ELSE UNCHANGED <<writeTimeout, timers>>

\* C35 as stated: revokeDevice only sets active = false, the sweep removes
\* exactly the expired entries and persists only if it removed one, and a
\* revoked entry stays in the map until the hourly sweep: no other step takes
\* it out
C35_RevokedStaysUntilSweep ==
    /\ []RevokeOnlyClearsActive
    /\ [][/\ RevokeStep
          /\ SweepStep
          /\ \A b \in BrowserIds : RevokedEntryGone(b) => cleanupExpired]_vars

\* C35: revokeDevice only sets active = false, the sweep removes
\* exactly the expired entries and persists only if it removed one, and a
\* revoked entry stays in the map until it is registered anew or, once it has
\* expired, the sweep or a lookup removes it
C35_RevokedStaysUntilExpiredOrRegistered ==
    /\ []RevokeOnlyClearsActive
    /\ [][/\ RevokeStep
          /\ SweepStep
          /\ \A b \in BrowserIds : RevokedEntryGone(b) =>
                \/ /\ b \in DOMAIN devices'
                   /\ lastReg'.browserId = b
                   /\ lastReg'.result = Registered(devices'[b])
                   /\ devices'[b].active
                \/ /\ b \notin DOMAIN devices'
                   /\ getTime(devices[b].expiresAt) <= now
                   /\ cleanupExpired \/ getDevice(b)]_vars

\* a revoked entry is in the map after a sweep that has just run, removed
\* nothing and armed no timer
C35_Witness ==
    /\ now > 0
    /\ cleanupInterval = Num(now + CLEANUP_INTERVAL_MS)
    /\ writeTimeout # Num(now + DEBOUNCE_WRITE_MS)
    /\ \E b \in DOMAIN devices :
        /\ ~devices[b].active
        /\ getTime(devices[b].expiresAt) > now


----------------------------------------------------------------------------
\* the number of requests the limiter maps tb, sw and fw would admit from ip
\* under tierConfig at the clock value t, one after the other
Allowance(tb, sw, fw, ip, tierConfig, t) ==
    LET r == CASE tierConfig.algorithm = "tokenBucket" ->
                    TokenBucketTryConsume(tb, ip, tierConfig.maxRequests,
                                          RefillRateOf(tierConfig), t)
               [] tierConfig.algorithm = "slidingWindow" ->
                    SlidingWindowLogTryConsume(sw, ip, tierConfig.maxRequests,
                                               tierConfig.windowMs, t)
               [] tierConfig.algorithm = "fixedWindow" ->
                    FixedWindowCounterTryConsume(fw, ip, tierConfig.maxRequests,
                                                 tierConfig.windowMs, t)
    IN  IF r.allowed THEN r.remaining + 1 ELSE 0

\* C36: the limiter maps are keyed by IP alone, so two tiers of one algorithm
\* share the state of an IP: a request the IP is admitted with under one tier
\* takes one from what it is allowed under every tier of that algorithm.  For
\* the token bucket, which the call first cuts down to the capacity of its own
\* tier, the other tier is left with what this tier is left with, up to its
\* own capacity.
C36_SharedPerIp ==
    [][calls' = calls + 1 =>
        /\ DOMAIN tokenBucket' \subseteq IPs
        /\ DOMAIN slidingWindow' \subseteq IPs
        /\ DOMAIN fixedWindow' \subseteq IPs
        /\ last'.result.allowed =>
            \A name \in DOMAIN config.tiers :
                LET other == config.tiers[name]
                    before == Allowance(tokenBucket, slidingWindow, fixedWindow,
                                        last'.ip, other, now)
                    after == Allowance(tokenBucket', slidingWindow', fixedWindow',
                                       last'.ip, other, now)
                    own == Allowance(tokenBucket, slidingWindow, fixedWindow,
                                     last'.ip, last'.tierConfig[1], now)
                IN  IF last'.stage = "tokenBucket"
                    THEN after = Min(ValOf(other.maxRequests), own - 1)
                    ELSE after = IF before > 0 THEN before - 1 ELSE 0]_vars

\* the first request of an IP under the larger tier is rejected, because its
\* one request before, under the smaller tier, has emptied the bucket of the IP
C36_Witness ==
    /\ config \in SharedConfigs
    /\ now = 0
    /\ calls = 2
    /\ rejected = 1
    /\ last.stage = "tokenBucket"
    /\ last.result.limit = Num(MaxCap)
    /\ ~last.result.allowed
    /\ DOMAIN tokenBucket = {last.ip}


----------------------------------------------------------------------------
\* C37: a checkLimit call that the global ceiling rejects leaves the state of
\* the tier algorithms as it is: no token is consumed, no timestamp recorded
\* and no fixed-window count incremented
C37_CeilingRejectionLeavesTiers ==
    [][(calls' = calls + 1 /\ last'.stage = "global") =>
            /\ ~last'.result.allowed
            /\ UNCHANGED <<tokenBucket, slidingWindow, fixedWindow>>]_vars

\* the ceiling has just rejected a call of a tier that limits, made by an IP
\* whose state the tier algorithm holds
C37_Witness ==
    /\ last.stage = "global"
    /\ ~last.result.allowed
    /\ last.tierConfig # <<>>
    /\ last.tierConfig[1].algorithm \in {"tokenBucket", "slidingWindow", "fixedWindow"}
    /\ last.ip \in DOMAIN tokenBucket \cup DOMAIN slidingWindow \cup DOMAIN fixedWindow

\* the count of the current global window before a call made now: 0 when the
\* call opens a new window
GlobalCount ==
    IF FixedWindowExpired(globalWindow, "__global__", now, Num(config.globalLimit.windowMs))
    THEN 0
    ELSE globalWindow["__global__"].count

\* C38: every checkLimit call that passes the global ceiling adds one to the
\* count of the current global window, whether the tier algorithm then admits
\* it or not, and a call the ceiling rejects adds nothing: the count is the
\* number of calls of the window that passed the ceiling
C38_PassedCallsConsumeGlobal ==
    [][calls' = calls + 1 =>
        IF last'.stage = "global"
        THEN /\ GlobalCount >= config.globalLimit.maxRequests
             /\ globalWindow'["__global__"].count = GlobalCount
        ELSE /\ GlobalCount < config.globalLimit.maxRequests
             /\ globalWindow'["__global__"].count = GlobalCount + 1]_vars

\* one client has been admitted once and rejected by its tier twice, and the
\* ceiling of three rejects the first call of the other client
C38_Witness ==
    /\ config = CeilingConfig
    /\ calls = 4
    /\ rejected = 3
    /\ gwAllowed.n = 1
    /\ last.stage = "global"
    /\ ~last.result.allowed
    /\ DOMAIN tokenBucket = IPs \ {last.ip}


----------------------------------------------------------------------------
\* C39 as stated: the id POST /keys gives a credential differs from the id of
\* every credential already in the list, so no two entries of the list ever
\* have one id and DELETE /keys/:keyId finds the entry the id was issued for
C39_CreatedIdsDiffer ==
    \A i, j \in 1..Len(apiKeys) : i # j => apiKeys[i].id # apiKeys[j].id


----------------------------------------------------------------------------
\* the registry holds, revoked, the entry of b with the n-th generated secret
RevokedWith(b, n) ==
    /\ b \in DOMAIN devices
    /\ devices[b].sharedSecret = generateSecret(n)
    /\ ~devices[b].active

\* apiKeyAuth has just passed a request on whose key carries the code that
\* the n-th generated secret gives for b now
AuthenticatedWith(b, n) ==
    /\ lastAuth.calls = 1
    /\ lastAuth.next
    /\ lastAuth.apiKey = formatKey(b, generateTOTP(b, generateSecret(n), 0, now))

\* C40: once a device has been revoked, no request authenticates with its old
\* secret again; getDevice returns null for a revoked browserId; and a
\* registration of a browserId whose entry is revoked or expired generates a
\* new secret and stores a new entry, active and valid for a week
C40_RevokedSecretIsDead ==
    /\ \A b \in BrowserIds, n \in 1..MaxRegs :
            [](RevokedWith(b, n) => [](~AuthenticatedWith(b, n)))
    /\ [](\A b \in DOMAIN devices :
            ~devices[b].active =>
                getDeviceOutcome(devices, writeTimeout, b, now).device = <<>>)
    /\ [][(/\ regs' = regs + 1
           /\ lastReg'.result.success
           /\ lastReg'.browserId \in DOMAIN devices
           /\ \/ ~devices[lastReg'.browserId].active
              \/ getTime(devices[lastReg'.browserId].expiresAt) <= now)
          => LET b == lastReg'.browserId
                 returned == lastReg'.result.device[1]
             IN  /\ issued' = issued + 1
                 /\ returned.sharedSecret = generateSecret(issued')
                 /\ returned.sharedSecret # devices[b].sharedSecret
                 /\ returned.active
                 /\ getTime(returned.expiresAt) = now + ONE_WEEK_MS
                 /\ devices'[b] = returned]_vars

\* a device was revoked and has registered anew before any entry could
\* expire: the registry holds its second secret, and the request that presents
\* the code of its first secret has just been turned away
C40_Witness ==
    /\ now = 0
    /\ issued = 2
    /\ lastAuth.calls = 1
    /\ ~lastAuth.next
    /\ lastAuth.status = 401
    /\ \E b \in DOMAIN devices :
        /\ devices[b].active
        /\ getTime(devices[b].expiresAt) > now
        /\ devices[b].sharedSecret = generateSecret(2)
        /\ lastAuth.apiKey = formatKey(b, generateTOTP(b, generateSecret(1), 0, now))


====
